---------------------------- MODULE Spec2Model ----------------------------
(***************************************************************************)
(* A state-machine model of the bytecode interpreter vm::execute_code of   *)
(* libinterp/parse-tree/pt-bytecode-vm.cc: the operand stack, the frame    *)
(* linkage pushed by calls and popped by RET / RET_ANON, the self-modifying*)
(* opcodes, the assignment handlers and the unwinder.  The machine         *)
(* interprets small compiled units given as byte arrays with the real      *)
(* opcode numbers; host operations (the tree evaluator, octave_value       *)
(* methods) are modelled by their contract.                                *)
(***************************************************************************)
EXTENDS Integers, Sequences, FiniteSets, TLC

(* ----------------------------- bounds ---------------------------------- *)
\* Largest nargout the host asks of the root routine.
MaxNargout == 10
\* Largest number of elements of a cell / cs-list / matrix input.
MaxCell == 3
\* Number of stack_element words of the VM stack (vm::vm, m_stack0).
StackSize == 70
\* Number of guard words of each pad of the VM stack (stack_pad).
StackPad == 2
\* Free words a bytecode call insists on (stack_min_for_new_call).
StackMinForNewCall == 12
\* The most argument words of a call with cs-lists among its arguments.
MaxArgs == 3
\* The most elements of a range a loop runs over.
MaxRange == 3
\* The most handlers the execution of one instruction is followed through.
MaxPasses == 4

\* The first slot number that does not fit the one-byte operand.
FirstWideSlot == 256
\* The most frames m_frame_ptr_cache takes (m_frame_ptr_cache.size () < 8).
FrameCacheSize == 8

(* ----------------------------- opcodes --------------------------------- *)
\* enum INSTR, in the order of the dispatch table instr[].
POP == 0
LOAD_CST == 2
RET == 7
ASSIGN == 8
JMP_IF == 9
JMP == 10
JMP_IFN == 11
INDEX_ID_NARGOUT0 == 19
PUSH_SLOT_INDEXED == 20
NOT == 29
USUB == 31
FOR_SETUP == 38
FOR_COND == 39
POP_N_INTS == 40
INDEX_ID_NARGOUT1 == 42
INDEX_IDN == 51
ASSIGNN == 52
SUBASSIGN_ID == 54
HANDLE_SIGNALS == 64
GLOBAL_INIT == 71
JMP_IFDEF == 73
FORCE_ASSIGN == 77
PUSH_NIL == 78
THROW_IFERROBJ == 79
INDEX_ID1_MAT_1D == 119
INDEX_ID1_MAT_2D == 120
SUBASSIGN_ID_MAT_1D == 123
JMP_IF_BOOL == 131
JMP_IFN_BOOL == 132
USUB_DBL == 133
NOT_DBL == 134
NOT_BOOL == 135
WIDE == 138
SUBASSIGN_ID_MAT_2D == 139
RET_ANON == 142
PUSH_CELL == 65
APPEND_CELL == 178
SET_IGNORE_OUTPUTS == 88
CLEAR_IGNORE_OUTPUTS == 89
ANON_MAYBE_SET_IGNORE_OUTPUT == 148
INCR_ID_PREFIX == 34
INCR_ID_PREFIX_DBL == 124
JMP_IFNCASEMATCH == 74
FOR_COMPLEX_SETUP == 99
FOR_COMPLEX_COND == 100
INDEX_IDNX == 143

(* ------------------------------ values --------------------------------- *)
\* Every stack_element and every octave_value is a record of one shape:
\* t is the kind, n a number, l a list of values, d the dimension vector of
\* an array (empty for what is no array).
Elem(t, n, l) == [t |-> t, n |-> n, l |-> l, d |-> << >>]
\* An array of kind t with dimensions d and elements l in column-major order.
Shaped(t, d, l) == [t |-> t, n |-> 0, l |-> l, d |-> d]
\* The dimensions of a row of k elements; [] and {} are 0x0.
RowDims(k) == IF k = 0 THEN << 0, 0 >> ELSE << 1, k >>

\* octave_value () : the undefined ("nil") value.
Undef == Elem("undef", 0, << >>)
Dbl(x) == Elem("dbl", x, << >>)
Bool(b) == Elem("bool", IF b THEN 1 ELSE 0, << >>)
Str(s) == Elem("str", 0, << s >>)
\* A row matrix whose elements are the values of l.
Mat(l) == Shaped("mat", RowDims(Len(l)), l)
CellV(l) == Shaped("cell", RowDims(Len(l)), l)
CsList(l) == Elem("cslist", 0, l)
\* A handle to the anonymous function compiled as unit f.
FHandle(f) == Elem("fhandle", f, << >>)
\* An octave_fcn_cache object for the function named s.
FcnCache(s) == Elem("fcache", 0, << s >>)
\* octave_value_ref_global: a reference wrapper for the global g.
RefGlobal(g) == Elem("ref", 0, << g >>)
\* The error object handed to a handler.
ErrMap(tag) == Elem("errmap", 0, << tag >>)

\* The raw words of the stack_element union.
IntE(i) == Elem("i", i, << >>)
Pse(p) == Elem("pse", p, << >>)
Puc(f) == Elem("puc", f, << >>)
Pud(f) == Elem("pud", f, << >>)
Pov(f) == Elem("pov", f, << >>)
Ps(f) == Elem("ps", f, << >>)
IpE(o) == Elem("ip", o, << >>)
Pee(msg) == Elem("pee", 0, << msg >>)
PsName(s) == Elem("psname", 0, << s >>)

RawKinds == {"i", "pse", "puc", "pud", "pov", "ps", "ip", "pee", "psname"}
IsOv(e) == e.t \notin RawKinds

(* --------------------------- compiled units ---------------------------- *)
\* The units the machine runs: the byte code (a four byte header, then the
\* instructions), the slot names, the constants, the unwind table, and the
\* offsets at which a statement starts with the operand depth of the open
\* loops and cleanup blocks around it.
\*   1 function [a, b] = leaf2 (x)      2 function varargout = vout (c)
\*   3 function [a, varargout] = vout2 (c)
\*   4 @(x) leaf2 (x)   5 @(x) vout (x)   6 @(x) vout2 (x)   7 @(h, c) h (c)
\*   8 function risky (v)
\*   9 function guard (x): for i = x, unwind_protect, 1; try, risky (i);
\*     catch e, end, unwind_protect_cleanup ... end_unwind_protect, end
\*  10 function outer (x): try, guard (x); catch, end
\*  11 function icf (v): -v; !v; if v, end; while ~v, break, end
\*  12 function ic2 (p, q): icf (p); icf (p); icf (q); icf (q); icf (p)
\*  13 function varargout = vtry (c): try, varargout = c; return; ...; catch, end
\*  14 function r = gset (v): global G; G = v; r = gget ()
\*  15 function r = gget (): global G; persistent P; P = G; r = P
\*  16 G = rhs (ASSIGN)   17 G = rhs (FORCE_ASSIGN)   18 [G, b] = rhs (ASSIGNN)
\*  19 function rec (h, x): if x, h (h, x); end    nested, with twenty locals
\*  20 function rec4 (h, x): if x, h (h, x); end   nested, with four locals
\*  21 function r = va1 (a, varargin)   22 function r = va2 (a, b, varargin)
\*  23 h (), h (x1), h (x1, x2), ...: a call of the handle h for each number
\*     of arguments
\*  24 function r = tguard (x): try, r = x; catch, end
\*  25 @(h, c) h (c, c)
\*  26 function [a, b] = asg4 (): [a, b] = rhs (ASSIGNN)
\*  27 function [a, b] = asg5 (): [~, b] = rhs (ASSIGNN)
\*  28 function sub1 (): A(i) = v        29 function sub2 (): A(i, j) = v
\*  30 function idx1 (): A(i)            31 function idx2 (): A(i, j)
\*  32 c = {x, y}   33 c = {x, y; z}   34 c = {x; y; z}
\*  35 function tloop (x): try, for i = x, risky (i); end, catch, end
\*  36 function uwp (x): try, 1; unwind_protect, risky (x); unwind_protect_cleanup,
\*     risky (x); end_unwind_protect, catch, end, unwind_protect, risky (x);
\*     unwind_protect_cleanup, end_unwind_protect
\*  37 function [q, r] = ign (c): try, [~, r] = vout (c); catch, end
\*  38 function top (c): ign (c)      39 @(c) vout (c)
\*  40 function [q, r] = ignh (h, c): [~, r] = h (c)
\*  41 function wloop (x): try, for i = x, risky (i); i = x; end, catch, end
\*  42 function gloop (x): global G; for G = x, G = x; end
\*  43 function cloop (): for [v, k] = s, end
\*  44..47 the units 28..31 with A in slot 256 (WIDE)
\*  48 function incr (): ++A;      49 the same with A in slot 256 (WIDE)
\*  50 function sh1 (): A(i) = v;   51 function sh2 (): A(i,j) = v;   with B = A before
\*  52 function cell4 (): c = {x, y, z};
\*  53 function sw (): switch x, case L, x; end
Bytecode == <<
  [ name   |-> "leaf2",
    code   |-> << 3, 1, 4, 0, 20, 3, 73, 10, 0, 7, 20, 3, 8, 1, 2, 3, 8, 2, 7 >>,
    names  |-> << "%nargout", "a", "b", "x" >>,
    data   |-> << Str("n"), Str("f"), Str("p"), Dbl(7) >>,
    unwind |-> <<  >>,
    stmts  |-> << <<4, 0>>, <<9, 0>>, <<10, 0>>, <<14, 0>>, <<18, 0>> >> ],
  [ name   |-> "vout",
    code   |-> << 254, 1, 3, 0, 20, 2, 73, 10, 0, 7, 20, 2, 8, 1, 7 >>,
    names  |-> << "%nargout", "varargout", "c" >>,
    data   |-> << Str("n"), Str("f"), Str("p") >>,
    unwind |-> <<  >>,
    stmts  |-> << <<4, 0>>, <<9, 0>>, <<10, 0>>, <<14, 0>> >> ],
  [ name   |-> "vout2",
    code   |-> << 253, 1, 4, 0, 2, 3, 8, 1, 20, 3, 73, 14, 0, 7, 20, 3, 8, 2, 7 >>,
    names  |-> << "%nargout", "a", "varargout", "c" >>,
    data   |-> << Str("n"), Str("f"), Str("p"), Dbl(5) >>,
    unwind |-> <<  >>,
    stmts  |-> << <<4, 0>>, <<8, 0>>, <<13, 0>>, <<14, 0>>, <<18, 0>> >> ],
  [ name   |-> "@leaf2",
    code   |-> << 128, 1, 3, 0, 20, 2, 20, 1, 143, 2, 1, 142 >>,
    names  |-> << "%nargout", "x", "leaf2" >>,
    data   |-> << Str("n"), Str("f"), Str("p") >>,
    unwind |-> <<  >>,
    stmts  |-> << <<4, 0>> >> ],
  [ name   |-> "@vout",
    code   |-> << 128, 1, 3, 0, 20, 2, 20, 1, 143, 2, 1, 142 >>,
    names  |-> << "%nargout", "x", "vout" >>,
    data   |-> << Str("n"), Str("f"), Str("p") >>,
    unwind |-> <<  >>,
    stmts  |-> << <<4, 0>> >> ],
  [ name   |-> "@vout2",
    code   |-> << 128, 1, 3, 0, 20, 2, 20, 1, 143, 2, 1, 142 >>,
    names  |-> << "%nargout", "x", "vout2" >>,
    data   |-> << Str("n"), Str("f"), Str("p") >>,
    unwind |-> <<  >>,
    stmts  |-> << <<4, 0>> >> ],
  [ name   |-> "@h",
    code   |-> << 128, 2, 3, 0, 20, 1, 20, 2, 143, 1, 1, 142 >>,
    names  |-> << "%nargout", "h", "c" >>,
    data   |-> << Str("n"), Str("f"), Str("p") >>,
    unwind |-> <<  >>,
    stmts  |-> << <<4, 0>> >> ],
  [ name   |-> "risky",
    code   |-> << 1, 1, 2, 0, 64, 20, 1, 31, 9, 12, 0, 7, 7 >>,
    names  |-> << "%nargout", "v" >>,
    data   |-> << Str("n"), Str("f"), Str("p") >>,
    unwind |-> <<  >>,
    stmts  |-> << <<4, 0>>, <<5, 0>>, <<11, 0>>, <<12, 0>> >> ],
  [ name   |-> "guard",
    code   |-> << 1, 1, 5, 0, 20, 1, 38, 39, 2, 32, 0, 64, 20, 4, 20, 2, 19, 4, 1, 0, 10, 26, 0, 77, 3, 64, 78, 64, 79, 10, 7, 0, 40, 2, 0, 7 >>,
    names  |-> << "%nargout", "x", "i", "e", "risky" >>,
    data   |-> << Str("n"), Str("f"), Str("p") >>,
    unwind |-> << [m_ip_start |-> 12, m_ip_end |-> 23, m_stack_depth |-> 3, m_ip_target |-> 23, m_unwind_entry_type |-> "TRY_CATCH"], [m_ip_start |-> 11, m_ip_end |-> 27, m_stack_depth |-> 3, m_ip_target |-> 27, m_unwind_entry_type |-> "UNWIND_PROTECT"], [m_ip_start |-> 7, m_ip_end |-> 32, m_stack_depth |-> 0, m_ip_target |-> 32, m_unwind_entry_type |-> "FOR_LOOP"] >>,
    stmts  |-> << <<4, 0>>, <<11, 3>>, <<12, 3>>, <<25, 3>>, <<27, 4>>, <<35, 0>> >> ],
  [ name   |-> "outer",
    code   |-> << 1, 1, 3, 0, 20, 2, 20, 1, 19, 2, 1, 0, 10, 16, 0, 0, 7 >>,
    names  |-> << "%nargout", "x", "guard" >>,
    data   |-> << Str("n"), Str("f"), Str("p") >>,
    unwind |-> << [m_ip_start |-> 4, m_ip_end |-> 15, m_stack_depth |-> 0, m_ip_target |-> 15, m_unwind_entry_type |-> "TRY_CATCH"] >>,
    stmts  |-> << <<4, 0>>, <<16, 0>> >> ],
  [ name   |-> "icf",
    code   |-> << 1, 1, 2, 0, 20, 1, 31, 0, 20, 1, 29, 0, 20, 1, 9, 17, 0, 20, 1, 11, 22, 0, 7 >>,
    names  |-> << "%nargout", "v" >>,
    data   |-> << Str("n"), Str("f"), Str("p") >>,
    unwind |-> <<  >>,
    stmts  |-> << <<4, 0>>, <<8, 0>>, <<12, 0>>, <<17, 0>>, <<22, 0>> >> ],
  [ name   |-> "ic2",
    code   |-> << 1, 2, 4, 0, 20, 3, 20, 1, 19, 3, 1, 0, 20, 3, 20, 1, 19, 3, 1, 0, 20, 3, 20, 2, 19, 3, 1, 0, 20, 3, 20, 2, 19, 3, 1, 0, 20, 3, 20, 1, 51, 3, 0, 1, 0, 7 >>,
    names  |-> << "%nargout", "p", "q", "icf" >>,
    data   |-> << Str("n"), Str("f"), Str("p") >>,
    unwind |-> <<  >>,
    stmts  |-> << <<4, 0>>, <<12, 0>>, <<20, 0>>, <<28, 0>>, <<36, 0>>, <<45, 0>> >> ],
  [ name   |-> "vtry",
    code   |-> << 254, 1, 3, 0, 20, 2, 8, 1, 7, 64, 10, 14, 0, 0, 7 >>,
    names  |-> << "%nargout", "varargout", "c" >>,
    data   |-> << Str("n"), Str("f"), Str("p") >>,
    unwind |-> << [m_ip_start |-> 4, m_ip_end |-> 13, m_stack_depth |-> 0, m_ip_target |-> 13, m_unwind_entry_type |-> "TRY_CATCH"] >>,
    stmts  |-> << <<4, 0>>, <<8, 0>>, <<9, 0>>, <<14, 0>> >> ],
  [ name   |-> "gset",
    code   |-> << 2, 1, 5, 0, 71, 1, 3, 0, 0, 0, 0, 20, 2, 8, 3, 20, 4, 42, 4, 0, 8, 1, 7 >>,
    names  |-> << "%nargout", "r", "v", "G", "gget" >>,
    data   |-> << Str("n"), Str("f"), Str("p") >>,
    unwind |-> <<  >>,
    stmts  |-> << <<4, 0>>, <<11, 0>>, <<15, 0>>, <<22, 0>> >> ],
  [ name   |-> "gget",
    code   |-> << 2, 0, 4, 0, 71, 1, 2, 0, 0, 0, 0, 71, 2, 3, 0, 0, 0, 0, 20, 2, 8, 3, 20, 3, 8, 1, 7 >>,
    names  |-> << "%nargout", "r", "G", "P" >>,
    data   |-> << Str("n"), Str("f"), Str("p") >>,
    unwind |-> <<  >>,
    stmts  |-> << <<4, 0>>, <<11, 0>>, <<18, 0>>, <<22, 0>>, <<26, 0>> >> ],
  [ name   |-> "asg1",
    code   |-> << 1, 0, 3, 0, 8, 1, 7 >>,
    names  |-> << "%nargout", "G", "b" >>,
    data   |-> << Str("n"), Str("f"), Str("p") >>,
    unwind |-> <<  >>,
    stmts  |-> << <<6, 0>> >> ],
  [ name   |-> "asg2",
    code   |-> << 1, 0, 3, 0, 77, 1, 7 >>,
    names  |-> << "%nargout", "G", "b" >>,
    data   |-> << Str("n"), Str("f"), Str("p") >>,
    unwind |-> <<  >>,
    stmts  |-> << <<6, 0>> >> ],
  [ name   |-> "asg3",
    code   |-> << 1, 0, 3, 0, 52, 2, 1, 0, 2, 0, 7 >>,
    names  |-> << "%nargout", "G", "b" >>,
    data   |-> << Str("n"), Str("f"), Str("p") >>,
    unwind |-> <<  >>,
    stmts  |-> << <<10, 0>> >> ],
  [ name   |-> "rec",
    code   |-> << 1, 2, 20, 0, 20, 2, 11, 19, 0, 20, 1, 20, 1, 20, 2, 19, 1, 2, 0, 7 >>,
    names  |-> << "%nargout", "h", "x", "t1", "t2", "t3", "t4", "t5", "t6", "t7", "t8", "t9", "t10", "t11", "t12", "t13", "t14", "t15", "t16", "t17" >>,
    data   |-> << Str("n"), Str("f"), Str("p") >>,
    unwind |-> <<  >>,
    stmts  |-> << <<4, 0>>, <<9, 0>>, <<19, 0>> >> ],
  [ name   |-> "rec4",
    code   |-> << 1, 2, 4, 0, 20, 2, 11, 20, 0, 20, 1, 20, 1, 20, 2, 51, 1, 0, 2, 0, 7 >>,
    names  |-> << "%nargout", "h", "x", "t" >>,
    data   |-> << Str("n"), Str("f"), Str("p") >>,
    unwind |-> <<  >>,
    stmts  |-> << <<4, 0>>, <<9, 0>>, <<20, 0>> >> ],
  [ name   |-> "va1",
    code   |-> << 2, 254, 4, 0, 7 >>,
    names  |-> << "%nargout", "r", "a", "varargin" >>,
    data   |-> << Str("n"), Str("f"), Str("p") >>,
    unwind |-> <<  >>,
    stmts  |-> << <<4, 0>> >> ],
  [ name   |-> "va2",
    code   |-> << 2, 253, 5, 0, 7 >>,
    names  |-> << "%nargout", "r", "a", "b", "varargin" >>,
    data   |-> << Str("n"), Str("f"), Str("p") >>,
    unwind |-> <<  >>,
    stmts  |-> << <<4, 0>> >> ],
  [ name   |-> "vcall",
    code   |-> << 1, 0, 2, 0, 51, 1, 1, 0, 0, 7, 51, 1, 1, 1, 0, 7, 51, 1, 1, 2, 0, 7, 51, 1, 1, 3, 0, 7, 51, 1, 1, 4, 0, 7 >>,
    names  |-> << "%nargout", "h" >>,
    data   |-> << Str("n"), Str("f"), Str("p") >>,
    unwind |-> <<  >>,
    stmts  |-> << <<4, 0>>, <<9, 0>>, <<10, 0>>, <<15, 0>>, <<16, 0>>, <<21, 0>>, <<22, 0>>, <<27, 0>>, <<28, 0>>, <<33, 0>> >> ],
  [ name   |-> "tguard",
    code   |-> << 2, 1, 3, 0, 20, 2, 8, 1, 10, 12, 0, 0, 7 >>,
    names  |-> << "%nargout", "r", "x" >>,
    data   |-> << Str("n"), Str("f"), Str("p") >>,
    unwind |-> << [m_ip_start |-> 4, m_ip_end |-> 11, m_stack_depth |-> 0, m_ip_target |-> 11, m_unwind_entry_type |-> "TRY_CATCH"] >>,
    stmts  |-> << <<4, 0>>, <<12, 0>> >> ],
  [ name   |-> "@h2",
    code   |-> << 128, 2, 3, 0, 20, 1, 20, 2, 20, 2, 143, 1, 2, 142 >>,
    names  |-> << "%nargout", "h", "c" >>,
    data   |-> << Str("n"), Str("f"), Str("p") >>,
    unwind |-> <<  >>,
    stmts  |-> << <<4, 0>> >> ],
  [ name   |-> "asg4",
    code   |-> << 3, 0, 3, 0, 52, 2, 1, 0, 2, 0, 7 >>,
    names  |-> << "%nargout", "a", "b" >>,
    data   |-> << Str("n"), Str("f"), Str("p") >>,
    unwind |-> <<  >>,
    stmts  |-> << <<10, 0>> >> ],
  [ name   |-> "asg5",
    code   |-> << 3, 0, 4, 0, 52, 2, 3, 0, 2, 0, 7 >>,
    names  |-> << "%nargout", "a", "b", "%~" >>,
    data   |-> << Str("n"), Str("f"), Str("p") >>,
    unwind |-> <<  >>,
    stmts  |-> << <<10, 0>> >> ],
  [ name   |-> "sub1",
    code   |-> << 1, 0, 2, 0, 54, 1, 1, 7 >>,
    names  |-> << "%nargout", "A" >>,
    data   |-> << Str("n"), Str("f"), Str("p") >>,
    unwind |-> <<  >>,
    stmts  |-> << <<7, 0>> >> ],
  [ name   |-> "sub2",
    code   |-> << 1, 0, 2, 0, 54, 1, 2, 7 >>,
    names  |-> << "%nargout", "A" >>,
    data   |-> << Str("n"), Str("f"), Str("p") >>,
    unwind |-> <<  >>,
    stmts  |-> << <<7, 0>> >> ],
  [ name   |-> "idx1",
    code   |-> << 1, 0, 2, 0, 42, 1, 1, 0, 7 >>,
    names  |-> << "%nargout", "A" >>,
    data   |-> << Str("n"), Str("f"), Str("p") >>,
    unwind |-> <<  >>,
    stmts  |-> << <<8, 0>> >> ],
  [ name   |-> "idx2",
    code   |-> << 1, 0, 2, 0, 42, 1, 2, 0, 7 >>,
    names  |-> << "%nargout", "A" >>,
    data   |-> << Str("n"), Str("f"), Str("p") >>,
    unwind |-> <<  >>,
    stmts  |-> << <<8, 0>> >> ],
  [ name   |-> "cell1",
    code   |-> << 1, 0, 5, 0, 65, 1, 2, 20, 2, 178, 0, 20, 3, 178, 3, 8, 1, 7 >>,
    names  |-> << "%nargout", "c", "x", "y", "z" >>,
    data   |-> << Str("n"), Str("f"), Str("p") >>,
    unwind |-> <<  >>,
    stmts  |-> << <<17, 0>> >> ],
  [ name   |-> "cell2",
    code   |-> << 1, 0, 5, 0, 65, 2, 2, 20, 2, 178, 0, 20, 3, 178, 4, 20, 4, 178, 2, 8, 1, 7 >>,
    names  |-> << "%nargout", "c", "x", "y", "z" >>,
    data   |-> << Str("n"), Str("f"), Str("p") >>,
    unwind |-> <<  >>,
    stmts  |-> << <<21, 0>> >> ],
  [ name   |-> "cell3",
    code   |-> << 1, 0, 5, 0, 65, 3, 1, 20, 2, 178, 4, 20, 3, 178, 1, 20, 4, 178, 2, 8, 1, 7 >>,
    names  |-> << "%nargout", "c", "x", "y", "z" >>,
    data   |-> << Str("n"), Str("f"), Str("p") >>,
    unwind |-> <<  >>,
    stmts  |-> << <<21, 0>> >> ],
  [ name   |-> "tloop",
    code   |-> << 1, 1, 4, 0, 20, 1, 38, 39, 2, 22, 0, 20, 3, 20, 2, 19, 3, 1, 0, 10, 7, 0, 40, 2, 0, 10, 29, 0, 0, 7 >>,
    names  |-> << "%nargout", "x", "i", "risky" >>,
    data   |-> << Str("n"), Str("f"), Str("p") >>,
    unwind |-> << [m_ip_start |-> 7, m_ip_end |-> 22, m_stack_depth |-> 0, m_ip_target |-> 22, m_unwind_entry_type |-> "FOR_LOOP"], [m_ip_start |-> 4, m_ip_end |-> 28, m_stack_depth |-> 0, m_ip_target |-> 28, m_unwind_entry_type |-> "TRY_CATCH"] >>,
    stmts  |-> << <<4, 0>>, <<11, 3>>, <<29, 0>> >> ],
  [ name   |-> "uwp",
    code   |-> << 1, 1, 3, 0, 64, 20, 2, 20, 1, 19, 2, 1, 0, 78, 20, 2, 20, 1, 19, 2, 1, 0, 79, 10, 27, 0, 0, 20, 2, 20, 1, 19, 2, 1, 0, 78, 79, 7 >>,
    names  |-> << "%nargout", "x", "risky" >>,
    data   |-> << Str("n"), Str("f"), Str("p") >>,
    unwind |-> << [m_ip_start |-> 5, m_ip_end |-> 14, m_stack_depth |-> 0, m_ip_target |-> 14, m_unwind_entry_type |-> "UNWIND_PROTECT"], [m_ip_start |-> 4, m_ip_end |-> 26, m_stack_depth |-> 0, m_ip_target |-> 26, m_unwind_entry_type |-> "TRY_CATCH"], [m_ip_start |-> 27, m_ip_end |-> 36, m_stack_depth |-> 0, m_ip_target |-> 36, m_unwind_entry_type |-> "UNWIND_PROTECT"] >>,
    stmts  |-> << <<4, 0>>, <<5, 0>>, <<14, 1>>, <<27, 0>>, <<37, 0>> >> ],
  [ name   |-> "ign",
    code   |-> << 3, 1, 6, 0, 88, 1, 2, 1, 20, 4, 20, 3, 51, 4, 2, 1, 52, 2, 5, 0, 2, 0, 78, 89, 1, 5, 0, 79, 10, 32, 0, 0, 7 >>,
    names  |-> << "%nargout", "q", "r", "c", "vout", "%~1" >>,
    data   |-> << Str("n"), Str("f"), Str("p") >>,
    unwind |-> << [m_ip_start |-> 8, m_ip_end |-> 23, m_stack_depth |-> 0, m_ip_target |-> 23, m_unwind_entry_type |-> "UNWIND_PROTECT"], [m_ip_start |-> 4, m_ip_end |-> 31, m_stack_depth |-> 0, m_ip_target |-> 31, m_unwind_entry_type |-> "TRY_CATCH"] >>,
    stmts  |-> << <<4, 0>>, <<32, 0>> >> ],
  [ name   |-> "top",
    code   |-> << 1, 1, 3, 0, 20, 2, 20, 1, 19, 2, 1, 0, 7 >>,
    names  |-> << "%nargout", "c", "ign" >>,
    data   |-> << Str("n"), Str("f"), Str("p") >>,
    unwind |-> <<  >>,
    stmts  |-> << <<4, 0>>, <<12, 0>> >> ],
  [ name   |-> "@ign",
    code   |-> << 128, 1, 3, 0, 148, 20, 2, 20, 1, 143, 2, 1, 142 >>,
    names  |-> << "%nargout", "c", "vout" >>,
    data   |-> << Str("n"), Str("f"), Str("p") >>,
    unwind |-> <<  >>,
    stmts  |-> << <<4, 0>> >> ],
  [ name   |-> "ignh",
    code   |-> << 3, 2, 6, 0, 88, 1, 2, 1, 20, 3, 20, 4, 51, 3, 2, 1, 52, 2, 5, 0, 2, 0, 78, 89, 1, 5, 0, 79, 7 >>,
    names  |-> << "%nargout", "q", "r", "h", "c", "%~1" >>,
    data   |-> << Str("n"), Str("f"), Str("p") >>,
    unwind |-> << [m_ip_start |-> 8, m_ip_end |-> 23, m_stack_depth |-> 0, m_ip_target |-> 23, m_unwind_entry_type |-> "UNWIND_PROTECT"] >>,
    stmts  |-> << <<4, 0>>, <<28, 0>> >> ],
  [ name   |-> "wloop",
    code   |-> << 1, 1, 4, 0, 20, 1, 38, 39, 2, 26, 0, 20, 3, 20, 2, 19, 3, 1, 0, 20, 1, 8, 2, 10, 7, 0, 40, 2, 0, 10, 33, 0, 0, 7 >>,
    names  |-> << "%nargout", "x", "i", "risky" >>,
    data   |-> << Str("n"), Str("f"), Str("p") >>,
    unwind |-> << [m_ip_start |-> 7, m_ip_end |-> 26, m_stack_depth |-> 0, m_ip_target |-> 26, m_unwind_entry_type |-> "FOR_LOOP"], [m_ip_start |-> 4, m_ip_end |-> 32, m_stack_depth |-> 0, m_ip_target |-> 32, m_unwind_entry_type |-> "TRY_CATCH"] >>,
    stmts  |-> << <<4, 0>>, <<11, 3>>, <<19, 3>>, <<33, 0>> >> ],
  [ name   |-> "gloop",
    code   |-> << 1, 1, 3, 0, 71, 1, 2, 0, 0, 0, 0, 20, 1, 38, 39, 2, 26, 0, 64, 20, 1, 8, 2, 10, 14, 0, 40, 2, 0, 7 >>,
    names  |-> << "%nargout", "x", "G" >>,
    data   |-> << Str("n"), Str("f"), Str("p") >>,
    unwind |-> << [m_ip_start |-> 14, m_ip_end |-> 26, m_stack_depth |-> 0, m_ip_target |-> 26, m_unwind_entry_type |-> "FOR_LOOP"] >>,
    stmts  |-> << <<4, 0>>, <<11, 0>>, <<18, 3>>, <<29, 0>> >> ],
  [ name   |-> "cloop",
    code   |-> << 1, 0, 4, 0, 20, 1, 99, 19, 0, 100, 19, 0, 2, 0, 3, 0, 10, 9, 0, 40, 2, 0, 7 >>,
    names  |-> << "%nargout", "s", "k", "v" >>,
    data   |-> << Str("n"), Str("f"), Str("p") >>,
    unwind |-> << [m_ip_start |-> 9, m_ip_end |-> 19, m_stack_depth |-> 0, m_ip_target |-> 19, m_unwind_entry_type |-> "FOR_LOOP"] >>,
    stmts  |-> << <<16, 3>>, <<22, 0>> >> ],
  [ name   |-> "wsub1",
    code   |-> << 1, 0, 1, 1, 138, 54, 0, 1, 1, 7 >>,
    names  |-> << "%nargout", "A" >>,
    data   |-> << Str("n"), Str("f"), Str("p") >>,
    unwind |-> <<  >>,
    stmts  |-> << <<9, 0>> >> ],
  [ name   |-> "wsub2",
    code   |-> << 1, 0, 1, 1, 138, 54, 0, 1, 2, 7 >>,
    names  |-> << "%nargout", "A" >>,
    data   |-> << Str("n"), Str("f"), Str("p") >>,
    unwind |-> <<  >>,
    stmts  |-> << <<9, 0>> >> ],
  [ name   |-> "widx1",
    code   |-> << 1, 0, 1, 1, 138, 42, 0, 1, 1, 0, 7 >>,
    names  |-> << "%nargout", "A" >>,
    data   |-> << Str("n"), Str("f"), Str("p") >>,
    unwind |-> <<  >>,
    stmts  |-> << <<10, 0>> >> ],
  [ name   |-> "widx2",
    code   |-> << 1, 0, 1, 1, 138, 42, 0, 1, 2, 0, 7 >>,
    names  |-> << "%nargout", "A" >>,
    data   |-> << Str("n"), Str("f"), Str("p") >>,
    unwind |-> <<  >>,
    stmts  |-> << <<10, 0>> >> ],
  [ name   |-> "incr",
    code   |-> << 1, 0, 2, 0, 34, 1, 0, 7 >>,
    names  |-> << "%nargout", "A" >>,
    data   |-> << Str("n"), Str("f"), Str("p") >>,
    unwind |-> <<  >>,
    stmts  |-> << <<7, 0>> >> ],
  [ name   |-> "wincr",
    code   |-> << 1, 0, 1, 1, 138, 34, 0, 1, 0, 7 >>,
    names  |-> << "%nargout", "A" >>,
    data   |-> << Str("n"), Str("f"), Str("p") >>,
    unwind |-> <<  >>,
    stmts  |-> << <<9, 0>> >> ],
  [ name   |-> "sh1",
    code   |-> << 1, 0, 3, 0, 54, 1, 1, 7 >>,
    names  |-> << "%nargout", "A", "B" >>,
    data   |-> << Str("n"), Str("f"), Str("p") >>,
    unwind |-> <<  >>,
    stmts  |-> << <<7, 0>> >> ],
  [ name   |-> "sh2",
    code   |-> << 1, 0, 3, 0, 54, 1, 2, 7 >>,
    names  |-> << "%nargout", "A", "B" >>,
    data   |-> << Str("n"), Str("f"), Str("p") >>,
    unwind |-> <<  >>,
    stmts  |-> << <<7, 0>> >> ],
  [ name   |-> "cell4",
    code   |-> << 1, 0, 5, 0, 65, 1, 3, 20, 2, 178, 0, 20, 3, 178, 0, 20, 4, 178, 3, 8, 1, 7 >>,
    names  |-> << "%nargout", "c", "x", "y", "z" >>,
    data   |-> << Str("n"), Str("f"), Str("p") >>,
    unwind |-> <<  >>,
    stmts  |-> << <<21, 0>> >> ],
  [ name   |-> "sw",
    code   |-> << 1, 0, 3, 0, 20, 1, 20, 2, 74, 14, 0, 20, 1, 0, 7 >>,
    names  |-> << "%nargout", "x", "L" >>,
    data   |-> << Str("n"), Str("f"), Str("p") >>,
    unwind |-> <<  >>,
    stmts  |-> << <<14, 0>> >> ]
>>

NUnits == Len(Bytecode)
Units == 1..NUnits

VARIABLES
  stack,          \* the operand stack m_stack[0 .. sp-1]; sp = Len(stack)
  bsp,            \* base of the current frame, as an offset from m_stack
  ip,             \* offset in the current code of the next opcode
  ob,             \* TRUE when the last handler ended in DISPATCH_1BYTEOP
  regs,           \* the registers code, data, name_data and unwind_data
  code,           \* the byte code of every unit (handlers rewrite opcodes)
  mode,           \* where the interpreter is
  frames,         \* the host's dynamic frame stack
  root,           \* the arguments of vm::call
  errdat,         \* the error being unwound
  m_unwinding_interrupt,
  m_could_not_push_frame,
  globals,        \* the process-wide bindings behind the reference wrappers
  m_dbg_proper_return,
  retval,         \* what execute_code returned to vm::call
  calls,          \* history: for each open bytecode call, what the caller saw
  seen,           \* history: the last run of each self-rewriting instruction
  m_profiler_enabled,
  m_frame_ptr_cache,  \* the frames kept for the next push, each by what the host tells of it
  m_stack0,       \* the words of the allocation m_stack0, m_frame_ptr_cache, each by what it holds
  m_vm_profiler,  \* the shadow call stack and, for each name, m_v_callers
  lvalue_list,    \* m_tw->lvalue_list (): the evaluator's lvalue list
  m_original_lvalue_list,
  m_output_ignore_data,
  lvalue_lists,   \* history: for each lvalue list, how often it was deleted
  last            \* history: what the last step did

vars == << stack, bsp, ip, ob, regs, code, mode, frames, root, errdat,
           m_unwinding_interrupt, m_could_not_push_frame, m_dbg_proper_return, retval,
           globals, calls, seen, last, m_profiler_enabled, m_stack0, m_frame_ptr_cache, m_vm_profiler, lvalue_list,
           m_original_lvalue_list, m_output_ignore_data, lvalue_lists >>

(* ------------------------- reading the code ---------------------------- *)
\* static_cast<signed char>
SignedChar(b) == IF b >= 128 THEN b - 256 ELSE b
USHORT_FROM_UCHARS(c1, c2) == c1 + 256 * c2
\* The byte at offset o of the code of unit f (0 past the end).
ByteOf(f, o) == IF o + 1 <= Len(code[f]) THEN code[f][o + 1] ELSE 0
Byte(o) == ByteOf(regs.code, o)
N_RETURNS(f) == SignedChar(code[f][1])
N_ARGS(f) == SignedChar(code[f][2])
N_LOCALS(f) == USHORT_FROM_UCHARS(code[f][3], code[f][4])
\* What DISPATCH and DISPATCH_1BYTEOP hand to the handler.
Opcode == Byte(ip)
arg0 == Byte(ip + 1)
\* The unit whose name is s (0 if there is none): the symbol table lookup.
UnitNamed(s) ==
  IF \E f \in Units : Bytecode[f].name = s
  THEN CHOOSE f \in Units : Bytecode[f].name = s
  ELSE 0

(* ------------------------- the operand stack --------------------------- *)
sp == Len(stack)
Abs(x) == IF x < 0 THEN -x ELSE x
Max(a, b) == IF a >= b THEN a ELSE b
Min(a, b) == IF a <= b THEN a ELSE b
Nils(k) == [i \in 1..k |-> Undef]
\* The word at offset p from m_stack, and the stack with that word replaced.
At(stk, p) == stk[p + 1]
SetAt(stk, p, v) == [stk EXCEPT ![p + 1] = v]
\* The first k words of stk.
Keep(stk, k) == SubSeq(stk, 1, k)
TOP_OV == stack[Len(stack)]
\* STACK_DESTROY (n) / STACK_SHRINK (n)
STACK_DESTROY(stk, n) == SubSeq(stk, 1, Len(stk) - n)
Reverse(s) == [i \in 1..Len(s) |-> s[Len(s) + 1 - i]]

(* ------------------ the value interface of the host -------------------- *)
is_defined(v) == v.t # "undef"
is_ref(v) == v.t = "ref"
is_cs_list(v) == v.t = "cslist"
iscell(v) == v.t = "cell"
\* octave_value::numel and dims of an array; a scalar is 1x1, nil is empty.
RECURSIVE Product(_)
Product(d) == IF d = << >> THEN 1 ELSE d[1] * Product(Tail(d))
numel(v) == IF v.d = << >> THEN (IF is_defined(v) THEN 1 ELSE 0) ELSE Product(v.d)
\* dims ().redim (2): the rows, and the columns with all further dimensions
\* folded into them.
rows(v) == IF v.d = << >> THEN 1 ELSE v.d[1]
cols(v) == IF v.d = << >> THEN 1 ELSE Product(Tail(v.d))
ndims(v) == Len(v.d)
\* octave_value_ref::deref and ::set_value on the process-wide bindings.
deref(v, g) == g[v.l[1]]
set_value(v, g, x) == [g EXCEPT ![v.l[1]] = x]
vm_need_dispatch_assign_rhs(v) == v.t \in {"undef", "cslist"}
vm_need_dispatch_assign_lhs(v) == v.t = "ref"
\* What reading slot s of the frame at b gives (push_slot_indexed).
SlotValue(stk, b, s, g) ==
  IF is_ref(At(stk, b + s)) THEN deref(At(stk, b + s), g) ELSE At(stk, b + s)

GlobalNames == {"G", "P"}

(* ------------------------------ errors --------------------------------- *)
\* The error_type word a handler pushes before it jumps to unwind.
ErrTag(tag) == Elem("i", 0, << tag >>)
HostTags == {"INTERRUPT_EXC", "INDEX_ERROR", "EXECUTION_EXC", "BAD_ALLOC", "EXIT_EXCEPTION"}
\* What the CATCH_ macros and debug_check push under the tag: the words
\* vm::handle_error pops for it.
Payload(tag) ==
  CASE tag \in {"EXECUTION_EXC", "INDEX_ERROR"} -> << Pee(tag) >>
    [] tag = "EXIT_EXCEPTION" -> << IntE(0), IntE(0) >>
    [] tag = "DEBUG_QUIT" -> << IntE(0) >>
    [] tag = "ID_UNDEFINED" -> << PsName("id") >>
    [] OTHER -> << >>
NoError == [et |-> "none", fn |-> 0, at |-> 0, depth |-> 0]

(* ------------------------------ inputs --------------------------------- *)
ElemValues == {Dbl(1), Bool(TRUE), Bool(FALSE)}
\* Lists of at most MaxCell scalars.
Lists == UNION {[1..k -> {Dbl(1), Dbl(2)}] : k \in 0..Min(MaxCell, 2)}
          \cup {[i \in 1..k |-> Dbl(i)] : k \in 0..MaxCell}
ArgValues == {Undef, Dbl(1), Bool(TRUE)} \cup {CellV(l) : l \in Lists}
CondValues == {Dbl(1), Dbl(0), Bool(TRUE), Bool(FALSE), Mat(<< Dbl(1), Dbl(0) >>)}
Iterables ==
  {Undef, Dbl(1), Mat(<< Dbl(1), Dbl(2) >>), Mat(<< Bool(TRUE), Bool(FALSE) >>), Mat(<< >>),
   Shaped("cell", << 0, 3 >>, << >>),
   Shaped("mat", << 3, 0 >>, << >>),
   Shaped("mat", << 2, 2 >>, << Dbl(1), Dbl(2), Dbl(3), Dbl(4) >>),
   Shaped("cell", << 2, 1 >>, << Dbl(1), Dbl(2) >>),
   Shaped("str", << 1, 2 >>, << "a", "b" >>),
   Shaped("struct", << 1, 2 >>, << Dbl(1), Dbl(2) >>)}
RootInputs ==
       {[fn |-> 7, args |-> << FHandle(h), c >>, nargout |-> r, dbg |-> FALSE, hostfail |-> FALSE] :
          h \in {4, 5, 6}, c \in ArgValues, r \in 0..MaxNargout}
  \cup {[fn |-> f, args |-> << x >>, nargout |-> r, dbg |-> d, hostfail |-> hf] :
          f \in {9, 10}, x \in Iterables, r \in {0, 1}, d \in BOOLEAN, hf \in BOOLEAN}
  \cup {[fn |-> 9, args |-> a, nargout |-> 0, dbg |-> FALSE, hostfail |-> FALSE] :
          a \in {<< >>, << Dbl(1), Dbl(2) >>}}
  \cup {[fn |-> 12, args |-> << p, q >>, nargout |-> 0, dbg |-> FALSE, hostfail |-> FALSE] :
          p \in CondValues, q \in CondValues}
  \cup {[fn |-> 13, args |-> << c >>, nargout |-> r, dbg |-> FALSE, hostfail |-> FALSE] :
          c \in ArgValues, r \in {0, 1}}
  \cup {[fn |-> 14, args |-> << v >>, nargout |-> r, dbg |-> d, hostfail |-> FALSE] :
          v \in ArgValues, r \in {0, 1}, d \in BOOLEAN}
  \cup {[fn |-> 24, args |-> a, nargout |-> r, dbg |-> FALSE, hostfail |-> FALSE] :
          a \in {<< >>, << Dbl(1) >>, << Dbl(1), Dbl(2) >>}, r \in 0..2}
  \cup {[fn |-> f, args |-> << FHandle(h), Dbl(1) >>, nargout |-> r, dbg |-> FALSE, hostfail |-> FALSE] :
          f \in {7, 25}, h \in {1, 24}, r \in 0..2}
  \cup {[fn |-> 35, args |-> << x >>, nargout |-> 0, dbg |-> FALSE, hostfail |-> hf] :
          x \in Iterables, hf \in BOOLEAN}
  \cup {[fn |-> 36, args |-> << x >>, nargout |-> 0, dbg |-> FALSE, hostfail |-> hf] :
          x \in {Dbl(1), Bool(TRUE), CellV(<< >>)}, hf \in BOOLEAN}
\* The calls of the recursive units, each with a handle to itself.
StackInputs ==
  {[fn |-> f, args |-> << FHandle(f), x >>, nargout |-> 0, dbg |-> d, hostfail |-> FALSE] :
     f \in {19, 20}, x \in CondValues \cup {Undef}, d \in BOOLEAN}
\* The right-hand sides and the slot contents of the assignment units.
RhsValues == {Undef, Dbl(1), CellV(<< >>), CsList(<< >>), CsList(<< Dbl(1) >>),
              CsList(<< Dbl(1), Dbl(2) >>), CsList(<< Undef >>)}
SlotValues == {Undef, Dbl(2), RefGlobal("G")}

HostFrame == [fn |-> 0, closure |-> FALSE, caught |-> FALSE, nargin |-> 0, ignored |-> Undef]

\* Pointers to lvalue lists: none, the list the evaluator has installed when
\* it enters the machine, and what m_original_lvalue_list holds before line
\* 1240 assigns it when the constructor left it a value of its own.
nullptr == 0
EntryList == 1
StaleList == 2
\* No output_ignore_data object.
NoIgnoreData == [live |-> FALSE, m_v_lvalue_list |-> << >>, m_v_owns_lvalue_list |-> << >>,
                 m_ov_pending_ignore_matrix |-> Undef, m_external_root_ignorer |-> FALSE]
\* new output_ignore_data: one entry for the frame that makes it.
NewIgnoreData ==
  [live |-> TRUE, m_v_lvalue_list |-> << nullptr >>, m_v_owns_lvalue_list |-> << FALSE >>,
   m_ov_pending_ignore_matrix |-> Undef, m_external_root_ignorer |-> FALSE]

\* vm::caller_ignores_output with the evaluator's lvalue list tw.
caller_ignores_output(tw) ==
  [NewIgnoreData EXCEPT !.m_v_lvalue_list = << tw >>, !.m_external_root_ignorer = TRUE]

\* new stack_element[stack_size + stack_pad * 2]
AllocWords == StackSize + StackPad * 2
\* m_stack = m_stack0 + stack_pad, as an index of m_stack0
m_stack == StackPad
\* vm::vm: the words of m_stack0 when the constructor is done.  The loop
\* writes stack_magic_int to m_stack0[i] and m_stack0[i + stack_size] for
\* i < stack_pad; no other word is written.
vm_construct ==
  [k \in 0..(AllocWords - 1) |->
     IF \E i \in 0..(StackPad - 1) : k = i \/ k = i + StackSize THEN "magic" ELSE "unset"]
\* What the host tells of a stack frame: fp.unique (), is_closure_context ()
\* and is_user_fcn_frame ().
FrameFacts == [unique : BOOLEAN, is_closure_context : BOOLEAN, is_user_fcn_frame : BOOLEAN]
\* The frame of an ordinary user function that nothing else holds.
OrdinaryFrame == [unique |-> TRUE, is_closure_context |-> FALSE, is_user_fcn_frame |-> TRUE]
\* The frame m_tw->pop_return_stack_frame () hands to a returning routine: as
\* the run names it, an ordinary frame otherwise.
pop_return_stack_frame == IF "fp" \in DOMAIN root THEN root.fp ELSE OrdinaryFrame
\* The frames the cache holds when the run begins.
CachedAtEntry == IF "cached" \in DOMAIN root THEN [i \in 1..root.cached |-> OrdinaryFrame] ELSE << >>
\* The profiler and the evaluator when vm::call is entered.
HostAtEntry(prof) ==
  /\ m_profiler_enabled = prof
  /\ m_stack0 = vm_construct
  /\ m_frame_ptr_cache = CachedAtEntry
  /\ m_vm_profiler = [m_shadow_call_stack |-> << >>, m_v_callers |-> [u \in Units |-> << >>]]
  /\ lvalue_list = EntryList
  /\ m_original_lvalue_list \in {nullptr, StaleList}
  /\ m_output_ignore_data = NoIgnoreData
  /\ lvalue_lists = << 0, 0 >>
\* The same when the root routine runs its instructions.
HostInRoot ==
  /\ m_profiler_enabled = FALSE
  /\ m_stack0 = vm_construct
  /\ m_frame_ptr_cache = CachedAtEntry
  /\ m_vm_profiler = [m_shadow_call_stack |-> << >>, m_v_callers |-> [u \in Units |-> << >>]]
  /\ lvalue_list = nullptr
  /\ m_original_lvalue_list = EntryList
  /\ m_output_ignore_data = NoIgnoreData
  /\ lvalue_lists = << 0, 0 >>

\* The state in which vm::call is entered with one of inputs.
StartAt(inputs, prof) ==
  /\ root \in inputs
  /\ HostAtEntry(prof)
  /\ stack = << >>
  /\ bsp = 0
  /\ ip = 0
  /\ ob = FALSE
  /\ regs = [code |-> root.fn, data |-> root.fn, name_data |-> root.fn, unwind_data |-> root.fn]
  /\ code = [f \in Units |-> Bytecode[f].code]
  /\ mode = "call"
  /\ frames = << HostFrame >>
  /\ errdat = NoError
  /\ m_unwinding_interrupt = FALSE
  /\ m_could_not_push_frame = FALSE
  /\ globals = [g \in GlobalNames |-> Undef]
  /\ m_dbg_proper_return = FALSE
  /\ retval = << >>
  /\ calls = << >>
  /\ seen = {}
  /\ last = "init"

Start(inputs) == StartAt(inputs, FALSE)
Init == Start(RootInputs)
InitStack == Start(StackInputs)
\* The same calls with the profiler enabled.
InitProfile == StartAt(RootInputs \cup StackInputs, TRUE)

\* The host's IGNORED auto variable of a frame: not set, or the matrix of the
\* outputs the caller of the routine ignores.
IgnoredValues == {Undef, Mat(<< >>), Mat(<< Dbl(1) >>), Mat(<< Dbl(2) >>), Mat(<< Dbl(1), Dbl(2) >>)}
\* An assignment unit about to run its first instruction: the right-hand
\* sides are on the operand stack, slot 1 holds nothing, a value or the
\* wrapper of the global G.
InitAssign ==
  /\ \E f \in {16, 17, 18, 26, 27}, a \in SlotValues, rhs1 \in RhsValues, rhs2 \in RhsValues,
        ign \in IgnoredValues :
        /\ root = [fn |-> f, args |-> << >>, nargout |-> 0, dbg |-> FALSE, hostfail |-> FALSE]
        /\ stack = << IntE(0), a >> \o Nils(Len(Bytecode[f].names) - 2)
                   \o (IF f \in {16, 17} THEN << rhs1 >> ELSE << rhs2, rhs1 >>)
        /\ (f \in {16, 17} => rhs2 = Undef)
        /\ (f \in {16, 17, 18} => ign = Undef)
        /\ regs = [code |-> f, data |-> f, name_data |-> f, unwind_data |-> f]
        /\ frames = << HostFrame, [fn |-> f, closure |-> FALSE, caught |-> FALSE, nargin |-> 0,
                                   ignored |-> ign] >>
        /\ globals = [g \in GlobalNames |-> IF g = "G" /\ is_ref(a) THEN Dbl(2) ELSE Undef]
  /\ bsp = 0
  /\ ip = 4
  /\ ob = FALSE
  /\ code = [f \in Units |-> Bytecode[f].code]
  /\ mode = "run"
  /\ errdat = NoError
  /\ m_unwinding_interrupt = FALSE
  /\ m_could_not_push_frame = FALSE
  /\ m_dbg_proper_return = FALSE
  /\ retval = << >>
  /\ calls = << >>
  /\ seen = {}
  /\ last = "init"
  /\ HostInRoot

\* The argument words of a call, cs-lists among them, and the calls of the
\* functions with varargin: a handle to the callee and at most MaxArgs
\* argument words.
ArgWords == {Dbl(1), Dbl(2), CsList(<< >>), CsList(<< Dbl(3) >>), CsList(<< Dbl(3), Dbl(4) >>)}
VararginInputs ==
  {[fn |-> 23, args |-> << FHandle(f) >> \o a, nargout |-> 0, dbg |-> FALSE, hostfail |-> hf] :
     f \in {21, 22}, a \in UNION {[1..k -> ArgWords] : k \in 0..MaxArgs}, hf \in BOOLEAN}
\* The caller about to run the call made for the number of argument words:
\* the called handle and the argument words are on the operand stack.
InitVarargin ==
  /\ root \in VararginInputs
  /\ stack = << IntE(0), root.args[1] >> \o root.args
  /\ regs = [code |-> 23, data |-> 23, name_data |-> 23, unwind_data |-> 23]
  /\ frames = << HostFrame, [fn |-> 23, closure |-> FALSE, caught |-> FALSE, nargin |-> 0,
                            ignored |-> Undef] >>
  /\ globals = [g \in GlobalNames |-> Undef]
  /\ bsp = 0
  /\ ip = 4 + 6 * (Len(root.args) - 1)
  /\ ob = FALSE
  /\ code = [f \in Units |-> Bytecode[f].code]
  /\ mode = "run"
  /\ errdat = NoError
  /\ m_unwinding_interrupt = FALSE
  /\ m_could_not_push_frame = FALSE
  /\ m_dbg_proper_return = FALSE
  /\ retval = << >>
  /\ calls = << >>
  /\ seen = {}
  /\ last = "init"
  /\ HostInRoot

\* What a step leaves alone of the profiler, the evaluator's lvalue list and
\* the output-ignore data.
SameHost == UNCHANGED << m_profiler_enabled, m_stack0, m_frame_ptr_cache, m_vm_profiler, lvalue_list, m_original_lvalue_list,
                         m_output_ignore_data, lvalue_lists >>
\* vm_profiler::enter_fn (fn_name, caller): fn and caller are units, 0 for "".
enter_fn(p, fn, caller) ==
  [m_shadow_call_stack |-> Append(p.m_shadow_call_stack, [m_callee |-> fn, m_caller |-> caller]),
   m_v_callers |-> [p.m_v_callers EXCEPT ![fn] = Append(@, caller)]]
\* vm_profiler::purge_shadow_stack
purge_shadow_stack(p) == [m_shadow_call_stack |-> << >>, m_v_callers |-> [u \in Units |-> << >>]]
\* vm_profiler::exit_fn (fn_name)
exit_fn(p, fn) ==
  IF p.m_shadow_call_stack = << >> \/ p.m_v_callers[fn] = << >> THEN purge_shadow_stack(p)
  ELSE LET call == p.m_shadow_call_stack[Len(p.m_shadow_call_stack)]
           caller_according_to_callee == p.m_v_callers[fn][Len(p.m_v_callers[fn])]
           popped == [m_shadow_call_stack |-> Keep(p.m_shadow_call_stack, Len(p.m_shadow_call_stack) - 1),
                      m_v_callers |-> [p.m_v_callers EXCEPT ![fn] = Keep(@, Len(@) - 1)]]
       IN  IF caller_according_to_callee # call.m_caller THEN purge_shadow_stack(popped)
           ELSE IF call.m_caller # 0 /\ popped.m_v_callers[call.m_caller] = << >>
           THEN purge_shadow_stack(popped)
           ELSE popped

(* ----------------------------- vm::call -------------------------------- *)
\* tree_evaluator::ignored_fcn_outputs when vm::call is entered.
ignored_fcn_outputs == IF "ignored" \in DOMAIN root THEN root.ignored ELSE Mat(<< >>)
\* vm::call up to execute_code: a dynamic frame for the root routine.
call ==
  /\ mode = "call"
  /\ LET ignored_outputs == ignored_fcn_outputs
     IN  IF Len(ignored_outputs.l) > 0
         THEN /\ m_output_ignore_data' = caller_ignores_output(lvalue_list)
              /\ frames' = Append(frames, [fn |-> root.fn, closure |-> FALSE, caught |-> FALSE,
                                         nargin |-> Len(root.args), ignored |-> ignored_outputs])
         ELSE /\ m_output_ignore_data' = m_output_ignore_data
              /\ frames' = Append(frames, [fn |-> root.fn, closure |-> FALSE, caught |-> FALSE,
                                         nargin |-> Len(root.args), ignored |-> Undef])
  /\ mode' = "setup"
  /\ last' = "call"
  /\ UNCHANGED << stack, bsp, ip, ob, regs, code, root, errdat,
                  m_unwinding_interrupt, m_could_not_push_frame, m_dbg_proper_return,
                  retval, globals, calls, seen >>
  /\ UNCHANGED << m_profiler_enabled, m_stack0, m_frame_ptr_cache, m_vm_profiler, lvalue_list, m_original_lvalue_list,
                  lvalue_lists >>

\* A handler that pushes payload and tag and jumps to unwind with the
\* instruction pointer at rawip.
Raise(stk, payload, tag, rawip) ==
  /\ stack' = stk \o payload \o << ErrTag(tag) >>
  /\ ip' = rawip
  /\ ob' = FALSE
  /\ mode' = "unwind"

\* A handler that ends in DISPATCH () with the instruction pointer at rawip.
DISPATCH(stk, rawip) ==
  /\ stack' = stk
  /\ ip' = rawip
  /\ ob' = FALSE
  /\ mode' = "run"

\* A handler of a one byte opcode that ends in DISPATCH_1BYTEOP ().
DISPATCH_1BYTEOP(stk) ==
  /\ stack' = stk
  /\ ip' = ip + 1
  /\ ob' = TRUE
  /\ mode' = "run"

\* execute_code: the root frame.
RootSetup ==
  /\ mode = "setup"
  /\ LET f == root.fn
         is_varargin == N_ARGS(f) < 0
         is_varargout == N_RETURNS(f) < 0
         n_args == Abs(N_ARGS(f))
         n_returns == IF N_RETURNS(f) < 0
                      THEN (IF N_RETURNS(f) # -128 THEN -N_RETURNS(f) ELSE 1)
                      ELSE N_RETURNS(f)
         n_locals == N_LOCALS(f)
         n_root_args == Len(root.args)
         n_args_to_push == Min(n_args - 1, n_root_args)
         n_varargin == n_root_args - n_args_to_push
         args == IF ~is_varargin
                 THEN root.args \o Nils(n_args - n_root_args)
                 ELSE SubSeq(root.args, 1, n_args_to_push)
                      \o Nils(n_args - 1 - n_args_to_push)
                      \o << CellV(SubSeq(root.args, n_args_to_push + 1, n_root_args)) >>
         stk == << IntE(root.nargout) >> \o Nils(n_returns - 1) \o args
                \o Nils(n_locals - n_args - n_returns)
     IN  /\ IF ~is_varargin /\ n_args < n_root_args
            THEN /\ Raise(stk, << Pee("too many inputs") >>, "EXECUTION_EXC", 5)
                 /\ UNCHANGED << lvalue_list, m_original_lvalue_list >>
            ELSE IF ~is_varargout /\ root.nargout > n_returns - 1
            THEN /\ Raise(stk, << Pee("too many outputs") >>, "EXECUTION_EXC", 5)
                 /\ UNCHANGED << lvalue_list, m_original_lvalue_list >>
            ELSE /\ DISPATCH(stk, 4)
                 /\ m_original_lvalue_list' = lvalue_list
                 /\ lvalue_list' = nullptr
         /\ m_vm_profiler' = IF m_profiler_enabled THEN enter_fn(m_vm_profiler, f, 0)
                             ELSE m_vm_profiler
  /\ last' = "setup"
  /\ UNCHANGED << bsp, regs, code, frames, root, errdat,
                  m_unwinding_interrupt, m_could_not_push_frame, m_dbg_proper_return,
                  retval, globals, calls, seen, m_profiler_enabled, m_stack0, m_frame_ptr_cache, m_output_ignore_data,
                  lvalue_lists >>

(* ------------------------- the simple handlers ------------------------- *)
\* What a handler leaves alone unless it says otherwise.
Same == UNCHANGED << bsp, regs, code, frames, root, errdat,
                     m_unwinding_interrupt, m_could_not_push_frame, m_dbg_proper_return,
                  retval, globals, calls, seen, m_profiler_enabled, m_stack0, m_frame_ptr_cache, m_vm_profiler, lvalue_list,
                  m_original_lvalue_list, m_output_ignore_data, lvalue_lists >>
SameButGlobals == UNCHANGED << bsp, regs, code, frames, root, errdat,
                               m_unwinding_interrupt, m_could_not_push_frame, m_dbg_proper_return,
                  retval, calls, seen, m_profiler_enabled, m_stack0, m_frame_ptr_cache, m_vm_profiler, lvalue_list,
                  m_original_lvalue_list, m_output_ignore_data, lvalue_lists >>
SameButCode == UNCHANGED << bsp, regs, frames, root, errdat,
                            m_unwinding_interrupt, m_could_not_push_frame, m_dbg_proper_return,
                            retval, globals, calls, m_profiler_enabled, m_stack0, m_frame_ptr_cache, m_vm_profiler,
                            lvalue_list, m_original_lvalue_list, m_output_ignore_data,
                            lvalue_lists >>
SameButCodeAndGlobals == UNCHANGED << bsp, regs, frames, root, errdat,
                                      m_unwinding_interrupt, m_could_not_push_frame,
                                      m_dbg_proper_return, retval, calls, m_profiler_enabled, m_stack0, m_frame_ptr_cache,
                                      m_vm_profiler, lvalue_list, m_original_lvalue_list,
                                      m_output_ignore_data, lvalue_lists >>
\* The handler of op is dispatched.  Past the end of m_stack the machine has
\* no defined next step.
Running(op) == mode = "run" /\ sp <= StackSize /\ Opcode = op

\* A POP that leaves the value where it is.
pop_Nothing ==
  /\ Running(POP)
  /\ DISPATCH_1BYTEOP(stack)
  /\ last' = "pop"
  /\ Same

pop ==
  /\ Running(POP)
  /\ DISPATCH_1BYTEOP(STACK_DESTROY(stack, 1))
  /\ last' = "pop"
  /\ Same

load_cst ==
  /\ Running(LOAD_CST)
  /\ DISPATCH(Append(stack, Bytecode[regs.data].data[arg0 + 1]), ip + 2)
  /\ last' = "load_cst"
  /\ Same

push_slot_indexed ==
  /\ Running(PUSH_SLOT_INDEXED)
  /\ DISPATCH(Append(stack, SlotValue(stack, bsp, arg0, globals)), ip + 2)
  /\ last' = "push_slot_indexed"
  /\ Same

push_nil ==
  /\ Running(PUSH_NIL)
  /\ DISPATCH_1BYTEOP(Append(stack, Undef))
  /\ last' = "push_nil"
  /\ Same

jmp ==
  /\ Running(JMP)
  /\ DISPATCH(stack, USHORT_FROM_UCHARS(arg0, Byte(ip + 2)))
  /\ last' = "jmp"
  /\ Same

jmp_ifdef ==
  /\ Running(JMP_IFDEF)
  /\ DISPATCH(STACK_DESTROY(stack, 1),
              IF is_defined(TOP_OV) THEN USHORT_FROM_UCHARS(arg0, Byte(ip + 2)) ELSE ip + 3)
  /\ last' = "jmp_ifdef"
  /\ Same

\* A POP_N_INTS that drops one word whatever its operand.
pop_n_ints_OneWord ==
  /\ Running(POP_N_INTS)
  /\ DISPATCH(STACK_DESTROY(stack, 1), ip + 2)
  /\ last' = "pop_n_ints"
  /\ Same

pop_n_ints ==
  /\ Running(POP_N_INTS)
  /\ DISPATCH(STACK_DESTROY(stack, arg0), ip + 2)
  /\ last' = "pop_n_ints"
  /\ Same

\* A HANDLE_SIGNALS that does not ask the host for pending signals.
handle_signals_Unchecked ==
  /\ Running(HANDLE_SIGNALS)
  /\ DISPATCH_1BYTEOP(stack)
  /\ last' = "handle_signals"
  /\ Same

\* octave_quit () inside try / CATCH_INTERRUPT_EXCEPTION: the host may have
\* an interrupt pending.
handle_signals ==
  /\ Running(HANDLE_SIGNALS)
  /\ \/ DISPATCH_1BYTEOP(stack)
     \/ Raise(stack, Payload("INTERRUPT_EXC"), "INTERRUPT_EXC", ip + 2)
  /\ last' = "handle_signals"
  /\ Same

(* ---------------------------- assignment ------------------------------- *)
\* The write of rhs into slot s of the current frame, through the reference
\* wrapper when the slot holds one.
\* The write that replaces whatever the slot holds.
StoreOverWrapper(stk, s, rhs) == SetAt(stk, bsp + s, rhs)

StoreStack(stk, s, rhs) ==
  IF ~is_ref(At(stk, bsp + s)) THEN SetAt(stk, bsp + s, rhs) ELSE stk
StoreGlobals(stk, s, rhs) ==
  IF ~is_ref(At(stk, bsp + s)) THEN globals ELSE set_value(At(stk, bsp + s), globals, rhs)

\* A slow path of ASSIGN that stores whatever the right-hand side is.
assign_dispath_StoresAnything ==
  /\ DISPATCH(STACK_DESTROY(StoreStack(stack, arg0, TOP_OV), 1), ip + 2)
  /\ globals' = StoreGlobals(stack, arg0, TOP_OV)

\* assign_dispath: the slow path of ASSIGN.
assign_dispath ==
  LET slot == arg0
      ov_rhs == IF is_cs_list(TOP_OV) /\ TOP_OV.l # << >> THEN TOP_OV.l[1] ELSE TOP_OV
  IN  IF is_cs_list(TOP_OV) /\ TOP_OV.l = << >>
      THEN Raise(stack, << >>, "INVALID_N_EL_RHS_IN_ASSIGNMENT", ip + 2) /\ globals' = globals
      ELSE IF ~is_defined(ov_rhs)
      THEN Raise(stack, << >>, "RHS_UNDEF_IN_ASSIGNMENT", ip + 2) /\ globals' = globals
      ELSE /\ DISPATCH(STACK_DESTROY(StoreStack(stack, slot, ov_rhs), 1), ip + 2)
           /\ globals' = StoreGlobals(stack, slot, ov_rhs)

assign ==
  /\ Running(ASSIGN)
  /\ IF vm_need_dispatch_assign_rhs(TOP_OV) \/ vm_need_dispatch_assign_lhs(At(stack, bsp + arg0))
     THEN assign_dispath
     ELSE /\ DISPATCH(STACK_DESTROY(SetAt(stack, bsp + arg0, TOP_OV), 1), ip + 2)
          /\ globals' = globals
  /\ last' = "assign"
  /\ SameButGlobals

force_assign ==
  /\ Running(FORCE_ASSIGN)
  /\ DISPATCH(STACK_DESTROY(StoreStack(stack, arg0, TOP_OV), 1), ip + 2)
  /\ globals' = StoreGlobals(stack, arg0, TOP_OV)
  /\ last' = "force_assign"
  /\ SameButGlobals

(* ------------------- conditional jumps, unary minus -------------------- *)
type_id(v) == v.t
m_bool_typeid == "bool"
m_scalar_typeid == "dbl"
\* The code with the opcode byte of the running instruction (ip[-2] in the
\* handler) overwritten.
Rewrite(op) == [code EXCEPT ![regs.code][ip + 1] = op]
\* wide: the handler of the opcode in arg0 runs with the 16-bit operand that
\* follows as its arg0, and with ip past that operand.
Prefixed == Opcode = WIDE
Entered(op) == mode = "run" /\ sp <= StackSize /\ (IF Prefixed THEN arg0 = op ELSE Opcode = op)
WideArg0 == IF Prefixed THEN USHORT_FROM_UCHARS(Byte(ip + 2), Byte(ip + 3)) ELSE arg0
\* The offset the C pointer ip has when the handler is entered.
HandlerIp == IF Prefixed THEN ip + 4 ELSE ip + 2
\* A handler that looks no further back for the opcode of a wide slot.
wide_opcode_offset_Never(slot) == 0
wide_opcode_offset(slot) == IF slot < FirstWideSlot THEN 0 ELSE -1
\* ip[-2 + wide_opcode_offset] = op, with the C pointer ip at the offset rawip.
Rewritten(cd, rawip, slot, op) == [cd EXCEPT ![rawip - 2 + wide_opcode_offset(slot) + 1] = op]
RewriteAt(rawip, slot, op) == [code EXCEPT ![regs.code] = Rewritten(@, rawip, slot, op)]
\* The frame word that keeps a slot.  The slots of a unit from the 256th on
\* follow slot 0: the words between, which no instruction of the units here
\* names, are not kept.
SlotWord(slot) == IF slot < FirstWideSlot THEN slot ELSE slot - FirstWideSlot + 1
\* octave_value::is_true of a defined value: the truth value, or the tag of
\* the exception the host throws.
is_true(v) ==
  CASE v.t \in {"dbl", "bool"} -> [ok |-> TRUE, v |-> v.n # 0, tag |-> "none"]
    [] v.t = "mat" -> [ok |-> TRUE, v |-> \A i \in 1..Len(v.l) : v.l[i].n # 0, tag |-> "none"]
    [] OTHER -> [ok |-> FALSE, v |-> FALSE, tag |-> "EXECUTION_EXC"]
JumpTarget == USHORT_FROM_UCHARS(arg0, Byte(ip + 2))

\* History: what the run of the self-rewriting instruction at ip did: the
\* type and value of its operand, the opcode byte it left, its outcome (for
\* a jump where it went, for a unary operator also what it pushed), and
\* whether the run before it at this place had an operand of the same type.
Remember(operand, isjump) ==
  seen' = {r \in seen : ~(r.fn = regs.code /\ r.at = ip)}
          \cup {[fn |-> regs.code, at |-> ip, ty |-> type_id(operand), val |-> operand,
                 op |-> code'[regs.code][ip + 1],
                 res |-> [mode |-> mode', ip |-> ip',
                          top |-> IF isjump THEN Undef ELSE stack'[Len(stack')]],
                 again |-> \E r \in seen : r.fn = regs.code /\ r.at = ip /\ r.ty = type_id(operand)]}

\* The body of jmp_if_bool / jmp_ifn_bool once the type test has passed.
JmpBool(sense) ==
  DISPATCH(STACK_DESTROY(stack, 1),
           IF (TOP_OV.n # 0) = sense THEN JumpTarget ELSE ip + 3)

\* The body of jmp_if / jmp_ifn once the type test has passed.
JmpGeneric(sense) ==
  IF is_defined(TOP_OV)
  THEN IF is_true(TOP_OV).ok
       THEN DISPATCH(STACK_DESTROY(stack, 1),
                     IF is_true(TOP_OV).v = sense THEN JumpTarget ELSE ip + 3)
       ELSE Raise(stack, Payload(is_true(TOP_OV).tag), is_true(TOP_OV).tag, ip + 3)
  ELSE Raise(stack, << >>, "IF_UNDEFINED", ip + 3)

jmp_if_bool ==
  /\ Running(JMP_IF_BOOL)
  /\ IF type_id(TOP_OV) # m_bool_typeid
     THEN code' = Rewrite(JMP_IF) /\ JmpGeneric(TRUE)
     ELSE code' = code /\ JmpBool(TRUE)
  /\ Remember(TOP_OV, TRUE)
  /\ last' = "jmp_if_bool"
  /\ SameButCode

jmp_if ==
  /\ Running(JMP_IF)
  /\ IF type_id(TOP_OV) = m_bool_typeid
     THEN code' = Rewrite(JMP_IF_BOOL) /\ JmpBool(TRUE)
     ELSE code' = code /\ JmpGeneric(TRUE)
  /\ Remember(TOP_OV, TRUE)
  /\ last' = "jmp_if"
  /\ SameButCode

jmp_ifn_bool ==
  /\ Running(JMP_IFN_BOOL)
  /\ IF type_id(TOP_OV) # m_bool_typeid
     THEN code' = Rewrite(JMP_IFN) /\ JmpGeneric(FALSE)
     ELSE code' = code /\ JmpBool(FALSE)
  /\ Remember(TOP_OV, TRUE)
  /\ last' = "jmp_ifn_bool"
  /\ SameButCode

jmp_ifn ==
  /\ Running(JMP_IFN)
  /\ IF type_id(TOP_OV) = m_bool_typeid
     THEN code' = Rewrite(JMP_IFN_BOOL) /\ JmpBool(FALSE)
     ELSE code' = code /\ JmpGeneric(FALSE)
  /\ Remember(TOP_OV, TRUE)
  /\ last' = "jmp_ifn"
  /\ SameButCode

\* unary_op of the host: the result, or the tag of the exception thrown.
unary_op(op, v) ==
  CASE v.t \in {"dbl", "bool"} /\ op = "uminus" -> [ok |-> TRUE, v |-> Dbl(0 - v.n), tag |-> "none"]
    [] v.t \in {"dbl", "bool"} /\ op = "not" -> [ok |-> TRUE, v |-> Bool(v.n = 0), tag |-> "none"]
    [] v.t = "mat" /\ op = "uminus" ->
         [ok |-> TRUE, v |-> Mat([i \in 1..Len(v.l) |-> Dbl(0 - v.l[i].n)]), tag |-> "none"]
    [] v.t = "mat" /\ op = "not" ->
         [ok |-> TRUE, v |-> Mat([i \in 1..Len(v.l) |-> Bool(v.l[i].n = 0)]), tag |-> "none"]
    [] OTHER -> [ok |-> FALSE, v |-> Undef, tag |-> "EXECUTION_EXC"]

\* The generic unary handler: unary_op inside try / CATCH_*.  The host may
\* fail for its own reasons (an interrupt, no memory, ...) whatever the value.
UnopGeneric(op) ==
  \/ /\ unary_op(op, TOP_OV).ok
     /\ DISPATCH_1BYTEOP(Append(STACK_DESTROY(stack, 1), unary_op(op, TOP_OV).v))
  \/ /\ ~unary_op(op, TOP_OV).ok
     /\ Raise(stack, Payload(unary_op(op, TOP_OV).tag), unary_op(op, TOP_OV).tag, ip + 2)
  \/ /\ root.hostfail
     /\ \E tag \in HostTags : Raise(stack, Payload(tag), tag, ip + 2)

\* MAKE_UNOP_SPECIALIZED: the precomputed function applied directly.
UnopSpecialized(op) ==
  DISPATCH_1BYTEOP(Append(STACK_DESTROY(stack, 1), unary_op(op, TOP_OV).v))

\* usub_dbl falling back to the generic opcode whatever the operand is.
usub_dbl_FallsBack ==
  /\ Running(USUB_DBL)
  /\ code' = Rewrite(USUB)
  /\ IF type_id(TOP_OV) # m_scalar_typeid THEN UnopGeneric("uminus") ELSE UnopSpecialized("uminus")
  /\ Remember(TOP_OV, FALSE)
  /\ last' = "usub_dbl"
  /\ SameButCode

usub_dbl ==
  /\ Running(USUB_DBL)
  /\ IF type_id(TOP_OV) # m_scalar_typeid
     THEN code' = Rewrite(USUB) /\ UnopGeneric("uminus")
     ELSE code' = code /\ UnopSpecialized("uminus")
  /\ Remember(TOP_OV, FALSE)
  /\ last' = "usub_dbl"
  /\ SameButCode

usub ==
  /\ Running(USUB)
  /\ IF type_id(TOP_OV) = m_scalar_typeid
     THEN code' = Rewrite(USUB_DBL) /\ UnopSpecialized("uminus")
     ELSE code' = code /\ UnopGeneric("uminus")
  /\ Remember(TOP_OV, FALSE)
  /\ last' = "usub"
  /\ SameButCode

\* The body of op_not; c is the code as the handler found it.
OpNot(c) ==
  IF type_id(TOP_OV) = m_scalar_typeid
  THEN code' = Rewrite(NOT_DBL) /\ UnopSpecialized("not")
  ELSE IF type_id(TOP_OV) = m_bool_typeid
  THEN code' = Rewrite(NOT_BOOL) /\ UnopSpecialized("not")
  ELSE code' = c /\ UnopGeneric("not")

op_not ==
  /\ Running(NOT)
  /\ OpNot(code)
  /\ Remember(TOP_OV, FALSE)
  /\ last' = "op_not"
  /\ SameButCode

not_dbl ==
  /\ Running(NOT_DBL)
  /\ IF type_id(TOP_OV) # m_scalar_typeid
     THEN OpNot(Rewrite(NOT))
     ELSE code' = code /\ UnopSpecialized("not")
  /\ Remember(TOP_OV, FALSE)
  /\ last' = "not_dbl"
  /\ SameButCode

not_bool ==
  /\ Running(NOT_BOOL)
  /\ IF type_id(TOP_OV) # m_bool_typeid
     THEN OpNot(Rewrite(NOT))
     ELSE code' = code /\ UnopSpecialized("not")
  /\ Remember(TOP_OV, FALSE)
  /\ last' = "not_bool"
  /\ SameButCode

(* ------------------------------ for loops ------------------------------ *)
\* The kinds for_setup iterates column by column.
ColumnWise == {"mat", "cell", "str", "struct"}
\* A for_setup that counts the columns of an iterable without rows as well.
ForN_ColumnsOfEmpty(v) == IF v.t \in ColumnWise THEN cols(v) ELSE numel(v)
\* The iteration count n of for_setup: the columns of dims ().redim (2) when
\* there are rows, numel () for a scalar and for nil.
ForN(v) ==
  IF v.t \in ColumnWise
  THEN IF rows(v) # 0 THEN cols(v) ELSE 0
  ELSE numel(v)
\* Column counter of the iterable; a scalar is its own only column.
vm_extract_forloop_value(v, counter) ==
  LET col == SubSeq(v.l, counter * rows(v) + 1, (counter + 1) * rows(v))
  IN  IF v.t \notin ColumnWise THEN v
      ELSE IF v.t = "mat" /\ rows(v) = 1 THEN col[1]
      ELSE Shaped(v.t, << rows(v), 1 >>, col)

\* A range base : base + n - 1 with increment 1, which for_setup holds as an
\* octave_trivial_range.
Range(base, n) == [t |-> "range", n |-> base, l |-> << >>, d |-> << 1, n >>]
is_trivial_range(v) == v.t = "range"
\* octave_trivial_range::vm_extract_forloop_double
vm_extract_forloop_double(v, counter) == Dbl(v.n + counter)

for_setup ==
  /\ Running(FOR_SETUP)
  /\ LET n == ForN(TOP_OV)
         slot == IF arg0 = WIDE THEN USHORT_FROM_UCHARS(Byte(ip + 3), Byte(ip + 4)) ELSE Byte(ip + 2)
         stk == stack \o << IntE(n), IntE(-1) >>
     IN  IF n = 0 /\ is_defined(TOP_OV)
         THEN /\ DISPATCH_1BYTEOP(StoreStack(stk, slot, TOP_OV))
              /\ globals' = StoreGlobals(stk, slot, TOP_OV)
         ELSE /\ DISPATCH_1BYTEOP(stk)
              /\ globals' = globals
  /\ last' = "for_setup"
  /\ SameButGlobals

for_cond ==
  /\ Running(FOR_COND)
  /\ \/ Raise(stack, Payload("INTERRUPT_EXC"), "INTERRUPT_EXC", ip + 2) /\ globals' = globals
     \/ LET counter == TOP_OV.n + 1
            n == At(stack, sp - 2).n
            ov_range == At(stack, sp - 3)
            stk == SetAt(stack, sp - 1, IntE(counter))
            after == USHORT_FROM_UCHARS(Byte(ip + 2), Byte(ip + 3))
        IN  IF counter = n
            THEN DISPATCH(stk, after) /\ globals' = globals
            ELSE LET val == IF is_trivial_range(ov_range)
                            THEN vm_extract_forloop_double(ov_range, counter)
                            ELSE vm_extract_forloop_value(ov_range, counter)
                 IN  /\ DISPATCH(StoreStack(stk, arg0, val), ip + 4)
                     /\ globals' = StoreGlobals(stk, arg0, val)
  /\ last' = "for_cond"
  /\ SameButGlobals

(* --------------------------- throw_iferrorobj -------------------------- *)
throw_iferrorobj ==
  /\ Running(THROW_IFERROBJ)
  /\ IF is_defined(TOP_OV)
     THEN IF m_unwinding_interrupt
          THEN Raise(STACK_DESTROY(stack, 1), << >>, "INTERRUPT_EXC", ip + 2)
          ELSE Raise(STACK_DESTROY(stack, 1), << Pee("rethrow") >>, "EXECUTION_EXC", ip + 2)
     ELSE DISPATCH_1BYTEOP(STACK_DESTROY(stack, 1))
  /\ last' = "throw_iferrorobj"
  /\ Same

(* -------------------------------- calls -------------------------------- *)
Dead == Elem("dead", 0, << >>)
\* octave_base_value::vm_dispatch_call
vm_dispatch_call(v) ==
  CASE v.t = "undef" -> "OCT_FN_LOOKUP"
    [] v.t = "fcache" -> "OCT_CALL"
    [] v.t = "fhandle" -> "OCT_NESTED_HANDLE"
    [] OTHER -> "OCT_SUBSREF"
\* octave_value::get_cached_fcn: the unit called (0 for no function).
get_cached_fcn(v) ==
  CASE v.t = "fcache" -> UnitNamed(v.l[1])
    [] v.t = "fhandle" -> v.n
    [] OTHER -> 0

\* The arguments as the callee receives them: cs-lists spread out.
RECURSIVE ExpandArgs(_)
ExpandArgs(a) ==
  IF a = << >> THEN << >>
  ELSE (IF is_cs_list(a[1]) THEN a[1].l ELSE << a[1] >>) \o ExpandArgs(Tail(a))

\* varargin_call, the loop over the arguments before varargin: args are
\* the argument words of the caller, lim = min (n_args_callee - 1,
\* n_args_on_stack), named the number of named parameters, acc what the loop
\* has pushed so far with the cs-list it expanded last and how far it got.
RECURSIVE VararginNamed(_, _, _, _, _)
VararginNamed(args, ii, lim, named, acc) ==
  IF ii > lim THEN acc
  ELSE LET arg == args[ii]
           n_push == Min(Len(arg.l), Max(0, named - Len(acc.pushed)))
       IN  IF is_cs_list(arg)
           THEN VararginNamed(args, ii + 1, lim, named,
                              [pushed |-> acc.pushed \o SubSeq(arg.l, 1, n_push),
                               cs_args |-> arg.l, cs_args_idx |-> n_push])
           ELSE VararginNamed(args, ii + 1, lim, named,
                              [acc EXCEPT !.pushed = Append(acc.pushed, arg)])

\* varargin_call: the words pushed above %nargout for a callee that declares
\* varargin (n_args_callee counts varargin), and the nargin it is given.
VararginFrame(args, n_returns_callee, n_args_callee, n_locals_callee) ==
  LET n_args_on_stack == Len(args)
      n_args_before_varargin == Min(n_args_callee - 1, n_args_on_stack)
      acc == VararginNamed(args, 1, n_args_before_varargin, n_args_callee - 1,
                           [pushed |-> << >>, cs_args |-> << >>, cs_args_idx |-> 0])
      n_args_on_callee_stack == Len(acc.pushed)
      n_args_in_varargin == n_args_on_stack - n_args_callee + 1
      n_cells_left == Len(acc.cs_args) - acc.cs_args_idx
      leftover == SubSeq(acc.cs_args, acc.cs_args_idx + 1, Len(acc.cs_args))
      surplus == IF n_args_in_varargin > 0
                 THEN ExpandArgs(SubSeq(args, n_args_before_varargin + 1,
                                        n_args_before_varargin + n_args_in_varargin))
                 ELSE << >>
      cell == IF n_args_in_varargin > 0 \/ n_cells_left > 0
              THEN CellV(leftover \o surplus) ELSE CellV(<< >>)
  IN  [words |-> Nils(n_returns_callee - 1) \o acc.pushed
                 \o Nils(n_args_callee - 1 - n_args_on_callee_stack)
                 \o << cell >>
                 \o Nils(n_locals_callee - n_args_callee - n_returns_callee),
       n_args_on_callee_stack |-> n_args_on_callee_stack,
       nargin |-> n_args_on_callee_stack + Len(cell.l)]

\* output_ignore_data::push_frame with the evaluator's lvalue list tw_list.
push_frame(d, tw_list) ==
  [d EXCEPT !.m_ov_pending_ignore_matrix = Undef,
            !.m_v_lvalue_list = Append(@, tw_list),
            !.m_v_owns_lvalue_list = Append(@, FALSE)]

\* The bytecode call of make_nested_handle_call: stk is the caller's stack
\* with the called object and n_args_on_stack arguments on top, rawip the
\* caller's instruction pointer.  MAKE_BYTECODE_CALL, the call of a function
\* found by name, is this code without the closure frame.
BytecodeCall(stk, fcn, n_args_on_stack, nargout, caller_nvalback, rawip, closure) ==
  IF Len(stk) + StackMinForNewCall >= StackSize
  THEN /\ Raise(stk, << Pee("VM is running out of stack space") >>, "EXECUTION_EXC", rawip)
       /\ UNCHANGED << bsp, regs, frames, calls, m_could_not_push_frame >>
       /\ SameHost
  ELSE
    LET first_arg == Len(stk) - n_args_on_stack
        n_returns_callee == IF N_RETURNS(fcn) < 0
                            THEN (IF N_RETURNS(fcn) = -128 THEN 1 ELSE -N_RETURNS(fcn))
                            ELSE N_RETURNS(fcn)
        n_args_callee == N_ARGS(fcn)
        n_locals_callee == N_LOCALS(fcn)
        args == ExpandArgs(SubSeq(stk, first_arg + 1, Len(stk)))
        n_args_on_callee_stack == Len(args)
        caller == [i \in 1..Len(stk) |-> IF i > first_arg THEN Dead ELSE stk[i]]
        words == << Pse(first_arg), Pud(regs.unwind_data), Puc(regs.code), Pov(regs.data),
                    Ps(regs.name_data), Pse(bsp), IpE(rawip), IntE(caller_nvalback) >>
        va == VararginFrame(SubSeq(stk, first_arg + 1, Len(stk)), n_returns_callee,
                            -n_args_callee, n_locals_callee)
        frame == IF n_args_callee < 0 THEN << IntE(nargout) >> \o va.words
                 ELSE << IntE(nargout) >> \o Nils(n_returns_callee - 1) \o args
                      \o Nils(n_args_callee - n_args_on_callee_stack)
                      \o Nils(n_locals_callee - n_args_callee - n_returns_callee)
        nargin == IF n_args_callee < 0 THEN va.nargin ELSE n_args_on_callee_stack
        stk2 == caller \o words \o frame
    IN  /\ bsp' = Len(stk) + 8
        /\ regs' = [code |-> fcn, data |-> fcn, name_data |-> fcn, unwind_data |-> fcn]
        /\ calls' = Append(calls, [top |-> first_arg - 1, nvalback |-> caller_nvalback,
                                   nargout |-> nargout, fn |-> fcn])
        /\ m_vm_profiler' = IF m_profiler_enabled THEN enter_fn(m_vm_profiler, fcn, regs.data)
                            ELSE m_vm_profiler
        /\ UNCHANGED << m_profiler_enabled, m_stack0, m_frame_ptr_cache, m_original_lvalue_list, lvalue_lists >>
        /\ \/ /\ frames' = Append(frames, [fn |-> fcn, closure |-> closure /\ n_args_callee >= 0,
                                         caught |-> FALSE, nargin |-> nargin,
                                         ignored |-> IF m_output_ignore_data.live
                                                     THEN m_output_ignore_data.m_ov_pending_ignore_matrix
                                                     ELSE Undef])
              /\ m_could_not_push_frame' = m_could_not_push_frame
              /\ IF m_output_ignore_data.live
                 THEN /\ m_output_ignore_data' = push_frame(m_output_ignore_data, lvalue_list)
                      /\ lvalue_list' = nullptr
                 ELSE UNCHANGED << m_output_ignore_data, lvalue_list >>
              /\ IF n_args_callee >= 0 /\ n_args_on_callee_stack > n_args_callee
                 THEN Raise(stk2, << Pee("called with too many inputs") >>, "EXECUTION_EXC", 4)
                 ELSE IF N_RETURNS(fcn) - 1 >= 0 /\ nargout > N_RETURNS(fcn) - 1
                 THEN Raise(stk2, << Pee("called with too many outputs") >>, "EXECUTION_EXC", 4)
                 ELSE DISPATCH(stk2, 4)
           \/ \* CATCH_STACKPUSH_EXECUTION_EXCEPTION: the host refuses the frame.
              /\ root.hostfail
              /\ frames' = frames
              /\ m_could_not_push_frame' = TRUE
              /\ UNCHANGED << m_output_ignore_data, lvalue_list >>
              /\ Raise(stk2, << Pee("push_stack_frame") >>, "EXECUTION_EXC", 4)

\* index_idnx, index_idn, index_id1 and index_id_nargout0 after they read
\* their operands.  The units call functions only: a value that is neither
\* nil, a function cache nor a handle is indexed by the host (OCT_SUBSREF),
\* which is not part of this model.
IndexId(slot, nargout, n_args_on_stack, rawip) ==
  LET ov == At(stack, sp - 1 - n_args_on_stack)
      kind == vm_dispatch_call(ov)
      cache == FcnCache(Bytecode[regs.name_data].names[slot + 1])
      \* OCT_FN_LOOKUP puts a function cache in the slot and in ov.
      stk == IF kind = "OCT_FN_LOOKUP"
             THEN SetAt(StoreStack(stack, slot, cache), sp - 1 - n_args_on_stack, cache)
             ELSE stack
      callee == IF kind = "OCT_FN_LOOKUP" THEN cache ELSE ov
      fcn == get_cached_fcn(callee)
  IN  /\ kind # "OCT_SUBSREF"
      /\ globals' = IF kind = "OCT_FN_LOOKUP" THEN StoreGlobals(stack, slot, cache) ELSE globals
      /\ IF fcn = 0
         THEN /\ Raise(stk, << PsName("id") >>, "ID_UNDEFINED", rawip)
              /\ UNCHANGED << bsp, regs, frames, calls, m_could_not_push_frame >>
              /\ SameHost
         ELSE /\ kind = "OCT_NESTED_HANDLE" \/ N_ARGS(fcn) >= 0
              /\ BytecodeCall(stk, fcn, n_args_on_stack, nargout, nargout, rawip,
                              kind = "OCT_NESTED_HANDLE")

SameForCall == UNCHANGED << code, root, errdat, m_unwinding_interrupt, m_dbg_proper_return, retval, seen >>

index_idnx ==
  /\ Running(INDEX_IDNX)
  /\ IndexId(arg0, At(stack, bsp).n, Byte(ip + 2), ip + 3)
  /\ last' = "index_idnx"
  /\ SameForCall

index_idn ==
  /\ Running(INDEX_IDN)
  /\ IndexId(arg0, Byte(ip + 2), Byte(ip + 3), ip + 4)
  /\ last' = "index_idn"
  /\ SameForCall


index_id_nargout0 ==
  /\ Running(INDEX_ID_NARGOUT0)
  /\ IndexId(arg0, 0, Byte(ip + 2), ip + 3)
  /\ last' = "index_id_nargout0"
  /\ SameForCall

(* ------------------------------- returns ------------------------------- *)
\* copy_many_args_to_caller: the values pushed on the caller's stack.
copy_many_args_to_caller(rets, n_args_to_move, n_args_caller_expects) ==
  Reverse(SubSeq(rets, 1, n_args_to_move)) \o Nils(n_args_caller_expects - n_args_to_move)

\* The bookkeeping words below the callee frame at caller_stack_end.
Saved(stk, caller_stack_end) ==
  [nvalback |-> At(stk, caller_stack_end - 1).n,
   ip |-> At(stk, caller_stack_end - 2).n,
   bsp |-> At(stk, caller_stack_end - 3).n,
   name_data |-> At(stk, caller_stack_end - 4).n,
   data |-> At(stk, caller_stack_end - 5).n,
   code |-> At(stk, caller_stack_end - 6).n,
   unwind_data |-> At(stk, caller_stack_end - 7).n,
   first_arg |-> At(stk, caller_stack_end - 8).n]

\* The return values RET hands over: the callee's return slots, with a
\* varargout cell spread out up to what the caller expects.
RetHas(rets, is_varargout, expects) ==
  IF ~is_varargout THEN rets
  ELSE LET ov_vararg == rets[Len(rets)]
           fixed == SubSeq(rets, 1, Len(rets) - 1)
           n_to_push == Min(Len(ov_vararg.l), Max(0, Max(1, expects) - Len(fixed)))
       IN  IF is_defined(ov_vararg) THEN fixed \o SubSeq(ov_vararg.l, 1, n_to_push)
           ELSE IF expects # 0 THEN fixed \o << Undef >>
           ELSE fixed

\* RET handing nothing to a caller that asked for nothing.
RetPushedNoAns(has, expects, overlap) ==
  LET n_args_to_move == Min(expects, Len(has))
  IN  IF expects = 0 THEN << >>
      ELSE IF overlap THEN copy_many_args_to_caller(has, n_args_to_move, expects)
      ELSE Nils(expects - n_args_to_move) \o Reverse(SubSeq(has, 1, n_args_to_move))

\* RET moving the values without reversing them.
RetPushedInOrder(has, expects, overlap) ==
  LET n_args_to_move == Min(expects, Len(has))
  IN  IF expects = 0 /\ Len(has) > 0 THEN << has[1] >>
      ELSE IF expects = 0 THEN << Undef >>
      ELSE IF overlap THEN SubSeq(has, 1, n_args_to_move) \o Nils(expects - n_args_to_move)
      ELSE Nils(expects - n_args_to_move) \o SubSeq(has, 1, n_args_to_move)

\* What RET pushes on the caller's stack.
RetPushed(has, expects, overlap) ==
  LET n_args_to_move == Min(expects, Len(has))
  IN  IF expects = 0 /\ Len(has) > 0 THEN << has[1] >>
      ELSE IF expects = 0 THEN << Undef >>
      ELSE IF overlap THEN copy_many_args_to_caller(has, n_args_to_move, expects)
      ELSE Nils(expects - n_args_to_move) \o Reverse(SubSeq(has, 1, n_args_to_move))

\* The values RET returns to the host from the root frame.
RetRoot(rets, is_varargout, n_root_wanted) ==
  IF ~is_varargout THEN SubSeq(rets, 1, Min(Len(rets), n_root_wanted))
  ELSE LET fixed == SubSeq(rets, 1, Min(Len(rets) - 1, n_root_wanted))
           ov_vararg == rets[Len(rets)]
       IN  IF is_defined(ov_vararg)
           THEN fixed \o SubSeq(ov_vararg.l, 1, Min(Len(ov_vararg.l), n_root_wanted - Len(fixed)))
           ELSE fixed

Deref(v) == IF is_ref(v) THEN deref(v, globals) ELSE v

\* delete of an lvalue list.
Delete(heap, p) == IF p = nullptr THEN heap ELSE [heap EXCEPT ![p] = @ + 1]
\* output_ignore_data::pop_frame with the evaluator's lvalue list tw: the
\* entry of the frame is popped, the list it saved is the evaluator's again
\* and the list it replaced is deleted when the entry owned it.
pop_frame(d, tw, heap) ==
  LET n == Len(d.m_v_lvalue_list)
  IN  IF n = 0 THEN [panic |-> TRUE, d |-> d, tw |-> tw, heap |-> heap]
      ELSE [panic |-> FALSE,
            d |-> [d EXCEPT !.m_v_lvalue_list = Keep(@, n - 1),
                            !.m_v_owns_lvalue_list = Keep(@, n - 1)],
            tw |-> d.m_v_lvalue_list[n],
            heap |-> IF d.m_v_owns_lvalue_list[n] THEN Delete(heap, tw) ELSE heap]
\* output_ignore_data::maybe_delete_ignore_data: the object goes when it has
\* no more than target_depth entries.
maybe_delete_ignore_data(d, target_depth) ==
  IF d.live /\ Len(d.m_v_lvalue_list) <= target_depth THEN NoIgnoreData ELSE d

\* The end of ret: the frame goes to the cache when nothing else holds it,
\* the cache has room, and it is an ordinary frame that is no closure context.
StashRet(cache, fp) ==
  IF fp.unique /\ Len(cache) < FrameCacheSize /\ ~fp.is_closure_context /\ fp.is_user_fcn_frame
  THEN Append(cache, fp) ELSE cache
\* The end of ret_anon: the same with the tests ret_anon makes.
StashRetAnon(cache, fp) ==
  IF fp.unique /\ Len(cache) < FrameCacheSize THEN Append(cache, fp) ELSE cache

ret ==
  /\ Running(RET)
  /\ LET n_locals_callee == N_LOCALS(regs.code)
         is_varargout == N_RETURNS(regs.code) < 0
         n_returns_callee == Abs(N_RETURNS(regs.code))
         n_dtor == n_locals_callee - n_returns_callee
         stk1 == Keep(stack, sp - n_dtor)
         caller_stack_end == Len(stk1) - n_returns_callee
         rets == SubSeq(stk1, caller_stack_end + 2, Len(stk1))
         h == IF m_output_ignore_data.live
              THEN pop_frame(m_output_ignore_data, lvalue_list, lvalue_lists)
              ELSE [panic |-> FALSE, d |-> m_output_ignore_data, tw |-> lvalue_list,
                    heap |-> lvalue_lists]
     IN  /\ IF h.panic
            THEN \* CHECK_PANIC (m_v_lvalue_list.size ()) fails
                 /\ mode' = "abort"
                 /\ UNCHANGED << stack, ip, ob, bsp, regs, frames, calls, m_dbg_proper_return, retval >>
            ELSE IF bsp + n_locals_callee # sp
            THEN \* assert (bsp + N_LOCALS() == sp) fails
                 /\ mode' = "abort"
                 /\ UNCHANGED << stack, ip, ob, bsp, regs, frames, calls, m_dbg_proper_return, retval >>
            ELSE IF is_varargout /\ is_defined(stk1[Len(stk1)]) /\ ~iscell(stk1[Len(stk1)])
            THEN /\ Raise(stk1, << Pee("varargout must be a cell array object") >>, "EXECUTION_EXC", ip + 2)
                 /\ UNCHANGED << bsp, regs, frames, calls, m_dbg_proper_return, retval >>
            ELSE IF bsp = 0
            THEN /\ retval' = RetRoot([i \in 1..Len(rets) |-> Deref(rets[i])], is_varargout,
                                      Max(root.nargout, 1))
                 /\ m_dbg_proper_return' = TRUE
                 /\ mode' = "returned"
                 /\ stack' = stk1
                 /\ UNCHANGED << ip, ob, bsp, regs, frames, calls >>
            ELSE LET s == Saved(stk1, caller_stack_end)
                     has == RetHas(rets, is_varargout, s.nvalback)
                     caller == Keep(stk1, s.first_arg - 1)
                     overlap == Len(caller) + s.nvalback >= caller_stack_end
                 IN  /\ DISPATCH(caller \o RetPushed(has, s.nvalback, overlap), s.ip)
                     /\ bsp' = s.bsp
                     /\ regs' = [code |-> s.code, data |-> s.data, name_data |-> s.name_data,
                                 unwind_data |-> s.unwind_data]
                     /\ frames' = Keep(frames, Len(frames) - 1)
                     /\ calls' = Keep(calls, Len(calls) - 1)
                     /\ UNCHANGED << m_dbg_proper_return, retval >>
         /\ m_output_ignore_data' = IF h.panic THEN m_output_ignore_data
                                    ELSE maybe_delete_ignore_data(h.d, 0)
         /\ lvalue_lists' = h.heap
         /\ lvalue_list' = IF mode' = "returned" THEN m_original_lvalue_list ELSE h.tw
         /\ m_vm_profiler' = IF m_profiler_enabled /\ mode' \in {"returned", "run"}
                             THEN exit_fn(m_vm_profiler, regs.data)
                             ELSE m_vm_profiler
         /\ m_frame_ptr_cache' = IF frames' # frames
                                 THEN StashRet(m_frame_ptr_cache, pop_return_stack_frame)
                                 ELSE m_frame_ptr_cache
  /\ last' = "ret"
  /\ UNCHANGED << code, root, errdat, m_unwinding_interrupt, m_could_not_push_frame, globals, seen,
                  m_profiler_enabled, m_stack0, m_original_lvalue_list >>

\* What RET_ANON pushes on the caller's stack.
RetAnonPushed(has, expects, overlap) ==
  LET n_args_to_move == Min(expects, Len(has))
  IN  IF expects = 0 /\ Len(has) > 0 THEN << has[1] >>
      ELSE IF expects = 0 THEN << Undef >>
      ELSE IF overlap THEN copy_many_args_to_caller(has, n_args_to_move, expects)
      ELSE Nils(expects - n_args_to_move) \o SubSeq(has, 1, n_args_to_move)

ret_anon ==
  /\ Running(RET_ANON)
  /\ LET n_returns_callee == IF At(stack, bsp).n = 0 THEN 1 ELSE At(stack, bsp).n
         n_locals_callee == N_LOCALS(regs.code)
         n_ret_on_stack == sp - bsp - n_locals_callee
         first_ret == SubSeq(stack, sp - n_ret_on_stack + 1, sp)
         caller_stack_end == bsp
         h == IF m_output_ignore_data.live
              THEN pop_frame(m_output_ignore_data, lvalue_list, lvalue_lists)
              ELSE [panic |-> FALSE, d |-> m_output_ignore_data, tw |-> lvalue_list,
                    heap |-> lvalue_lists]
     IN  /\ IF h.panic
            THEN \* CHECK_PANIC (m_v_lvalue_list.size ()) fails
                 /\ mode' = "abort"
                 /\ UNCHANGED << stack, ip, ob, bsp, regs, frames, calls, m_dbg_proper_return, retval >>
            ELSE IF N_RETURNS(regs.code) # -128 \/ n_ret_on_stack < 0 \/ n_ret_on_stack > n_returns_callee
            THEN \* one of the two assertions fails
                 /\ mode' = "abort"
                 /\ UNCHANGED << stack, ip, ob, bsp, regs, frames, calls, m_dbg_proper_return, retval >>
            ELSE IF bsp = 0
            THEN /\ retval' = SubSeq(Reverse(first_ret), 1, Min(n_ret_on_stack, Max(root.nargout, 1)))
                 /\ m_dbg_proper_return' = TRUE
                 /\ mode' = "returned"
                 /\ UNCHANGED << stack, ip, ob, bsp, regs, frames, calls >>
            ELSE LET s == Saved(stack, caller_stack_end)
                     caller == Keep(stack, s.first_arg - 1)
                     overlap == Len(caller) + s.nvalback >= caller_stack_end
                 IN  /\ DISPATCH(caller \o RetAnonPushed(first_ret, s.nvalback, overlap), s.ip)
                     /\ bsp' = s.bsp
                     /\ regs' = [code |-> s.code, data |-> s.data, name_data |-> s.name_data,
                                 unwind_data |-> s.unwind_data]
                     /\ frames' = Keep(frames, Len(frames) - 1)
                     /\ calls' = Keep(calls, Len(calls) - 1)
                     /\ UNCHANGED << m_dbg_proper_return, retval >>
         /\ m_output_ignore_data' = IF h.panic THEN m_output_ignore_data
                                    ELSE maybe_delete_ignore_data(h.d, 0)
         /\ lvalue_lists' = h.heap
         /\ lvalue_list' = IF mode' = "returned" THEN m_original_lvalue_list ELSE h.tw
         /\ m_vm_profiler' = IF m_profiler_enabled /\ mode' \in {"returned", "run"}
                             THEN exit_fn(m_vm_profiler, regs.data)
                             ELSE m_vm_profiler
         /\ m_frame_ptr_cache' = IF frames' # frames
                                 THEN StashRetAnon(m_frame_ptr_cache, pop_return_stack_frame)
                                 ELSE m_frame_ptr_cache
  /\ last' = "ret_anon"
  /\ UNCHANGED << code, root, errdat, m_unwinding_interrupt, m_could_not_push_frame, globals, seen,
                  m_profiler_enabled, m_stack0, m_original_lvalue_list >>

(* ------------------------------ unwinding ------------------------------ *)
\* debug_check: with the debugger armed, the breakpoint of the statement
\* about to run can end in quit_debug_exception.
debug_check ==
  /\ mode = "run"
  /\ sp <= StackSize
  /\ root.dbg
  /\ \E i \in 1..Len(Bytecode[regs.code].stmts) : Bytecode[regs.code].stmts[i][1] = ip
  /\ Raise(stack, Payload("DEBUG_QUIT"), "DEBUG_QUIT", IF ob THEN ip + 1 ELSE ip)
  /\ last' = "debug_check"
  /\ Same

\* The entry of unwind: the tag and what handle_error pops leave the stack,
\* m_ip is the rewound instruction pointer.
unwind ==
  /\ mode = "unwind"
  /\ LET et == TOP_OV.l[1]
     IN  /\ stack' = Keep(stack, sp - 1 - Len(Payload(et)))
         /\ errdat' = [et |-> et, fn |-> regs.code, at |-> ip - 1, depth |-> Len(frames)]
  /\ ip' = ip - 1
  /\ mode' = "unwinding"
  /\ last' = "unwind"
  /\ UNCHANGED << bsp, ob, regs, code, frames, root, m_unwinding_interrupt,
                  m_could_not_push_frame, m_dbg_proper_return, retval, globals, calls, seen >>
  /\ SameHost

UnwindEntries == Bytecode[regs.unwind_data].unwind

\* vm::find_unwind_entry_for_forloop, as the loop over the entries from i on.
RECURSIVE ForloopFrom(_, _, _)
ForloopFrom(i, best_match, current_stack_depth) ==
  IF i > Len(UnwindEntries) THEN best_match
  ELSE LET entry == UnwindEntries[i]
       IN  IF \/ entry.m_unwind_entry_type # "FOR_LOOP"
              \/ entry.m_ip_start > ip \/ entry.m_ip_end <= ip
              \/ entry.m_stack_depth >= current_stack_depth
              \/ (best_match # -1 /\ best_match > entry.m_stack_depth)
           THEN ForloopFrom(i + 1, best_match, current_stack_depth)
           ELSE ForloopFrom(i + 1, entry.m_stack_depth, current_stack_depth)
find_unwind_entry_for_forloop(current_stack_depth) == ForloopFrom(1, -1, current_stack_depth)

\* vm::find_unwind_entry_for_current_state: the index of the entry, 0 for
\* nullptr.
RECURSIVE EntryFrom(_, _, _)
EntryFrom(i, best_match, only_find_unwind_protect) ==
  IF i > Len(UnwindEntries) THEN best_match
  ELSE LET entry == UnwindEntries[i]
       IN  IF \/ (only_find_unwind_protect /\ entry.m_unwind_entry_type # "UNWIND_PROTECT")
              \/ entry.m_unwind_entry_type = "FOR_LOOP"
              \/ entry.m_ip_start > ip \/ entry.m_ip_end <= ip
              \/ (best_match # 0 /\ UnwindEntries[best_match].m_ip_start > entry.m_ip_start)
           THEN EntryFrom(i + 1, best_match, only_find_unwind_protect)
           ELSE EntryFrom(i + 1, i, only_find_unwind_protect)
\* A search that finds no entry.
find_no_unwind_entry(only_find_unwind_protect) == 0

find_unwind_entry_for_current_state(only_find_unwind_protect) ==
  EntryFrom(1, 0, only_find_unwind_protect)

\* An unwinder that offers every handler to every tag.
UnwindEntryAnyTag(et) == find_unwind_entry_for_current_state(FALSE)

\* The entry the unwinder uses for the error et in the current frame.
UnwindEntry(et) ==
  IF et # "DEBUG_QUIT" THEN find_unwind_entry_for_current_state(et = "INTERRUPT_EXC") ELSE 0

\* The loop that unwinds the stack down to target_stack_depth, popping the
\* two native ints with the iterable of a for loop.
RECURSIVE UnwindTo(_, _)
UnwindTo(stk, target_stack_depth) ==
  IF Len(stk) - bsp > target_stack_depth
  THEN LET current_stack_depth == Len(stk) - bsp - N_LOCALS(regs.code)
           stack_depth_for_forloop == find_unwind_entry_for_forloop(current_stack_depth)
       IN  IF stack_depth_for_forloop # -1 /\ current_stack_depth = stack_depth_for_forloop + 3
           THEN UnwindTo(Keep(stk, Len(stk) - 3), target_stack_depth)
           ELSE UnwindTo(Keep(stk, Len(stk) - 1), target_stack_depth)
  ELSE stk
\* TRUE when that loop runs the destructor of a value on a raw word.
RECURSIVE UnwindHitsRaw(_, _)
UnwindHitsRaw(stk, target_stack_depth) ==
  IF Len(stk) - bsp > target_stack_depth
  THEN LET current_stack_depth == Len(stk) - bsp - N_LOCALS(regs.code)
           stack_depth_for_forloop == find_unwind_entry_for_forloop(current_stack_depth)
       IN  IF stack_depth_for_forloop # -1 /\ current_stack_depth = stack_depth_for_forloop + 3
           THEN \/ ~IsOv(stk[Len(stk) - 2])
                \/ UnwindHitsRaw(Keep(stk, Len(stk) - 3), target_stack_depth)
           ELSE \/ ~IsOv(stk[Len(stk)])
                \/ UnwindHitsRaw(Keep(stk, Len(stk) - 1), target_stack_depth)
  ELSE FALSE

\* One turn of the while (1) loop of unwind: resume at the handler of the
\* current frame, or tear the frame down and go on in the caller.
unwind_frame ==
  /\ mode = "unwinding"
  /\ LET et == errdat.et
         e == UnwindEntry(et)
         target_stack_depth == N_LOCALS(regs.code) + (IF e # 0 THEN UnwindEntries[e].m_stack_depth ELSE 0)
         stk == UnwindTo(stack, target_stack_depth)
     IN  IF UnwindHitsRaw(stack, target_stack_depth)
              \/ (e = 0 /\ \E i \in bsp + 2..Len(stk) : ~IsOv(stk[i]))
         THEN \* the destructor of a value runs on a raw word
              /\ mode' = "ub"
              /\ UNCHANGED << stack, bsp, ip, ob, regs, frames, calls,
                              m_unwinding_interrupt, m_could_not_push_frame >>
              /\ UNCHANGED << m_vm_profiler, lvalue_list, m_output_ignore_data, lvalue_lists >>
         ELSE IF e # 0
         THEN /\ stack' = Append(stk, ErrMap(et))
              /\ ip' = UnwindEntries[e].m_ip_target
              /\ ob' = FALSE
              /\ mode' = "run"
              /\ m_unwinding_interrupt' = (m_unwinding_interrupt \/ et = "INTERRUPT_EXC")
              /\ frames' = [frames EXCEPT ![Len(frames)].caught = TRUE]
              /\ UNCHANGED << bsp, regs, calls, m_could_not_push_frame >>
              /\ UNCHANGED << m_vm_profiler, lvalue_list, m_output_ignore_data, lvalue_lists >>
         ELSE IF bsp = 0
         THEN /\ stack' = << >>
              /\ mode' = "rethrow"
              /\ UNCHANGED << bsp, ip, ob, regs, frames, calls,
                              m_unwinding_interrupt, m_could_not_push_frame >>
              /\ UNCHANGED << m_vm_profiler, lvalue_list, m_output_ignore_data, lvalue_lists >>
         ELSE LET s == Saved(stack, bsp)
                  h == IF m_output_ignore_data.live
                       THEN pop_frame(m_output_ignore_data, lvalue_list, lvalue_lists)
                       ELSE [panic |-> FALSE, d |-> m_output_ignore_data, tw |-> lvalue_list,
                             heap |-> lvalue_lists]
              IN  /\ stack' = Keep(stack, s.first_arg)
                  /\ m_vm_profiler' = IF m_profiler_enabled THEN exit_fn(m_vm_profiler, regs.data)
                                      ELSE m_vm_profiler
                  /\ m_output_ignore_data' = IF h.panic THEN m_output_ignore_data
                                             ELSE maybe_delete_ignore_data(h.d, 0)
                  /\ lvalue_list' = h.tw
                  /\ lvalue_lists' = h.heap
                  /\ mode' = IF h.panic THEN "abort" ELSE mode
                  /\ ip' = s.ip
                  /\ bsp' = s.bsp
                  /\ regs' = [code |-> s.code, data |-> s.data, name_data |-> s.name_data,
                              unwind_data |-> s.unwind_data]
                  /\ frames' = IF ~m_could_not_push_frame THEN Keep(frames, Len(frames) - 1) ELSE frames
                  /\ m_could_not_push_frame' = FALSE
                  /\ calls' = Keep(calls, Len(calls) - 1)
                  /\ UNCHANGED << ob, m_unwinding_interrupt >>
  /\ last' = "unwind_frame"
  /\ UNCHANGED << code, root, errdat, m_dbg_proper_return, retval, globals, seen,
                  m_profiler_enabled, m_stack0, m_frame_ptr_cache, m_original_lvalue_list >>

\* An unwinder that rethrows every tag through the error system.
RethrownAsError(et) == "execution_exception"

\* The exception unwind throws out of execute_code for the tag et.
Rethrown(et) ==
  CASE et = "INTERRUPT_EXC" -> "interrupt_exception"
    [] et = "DEBUG_QUIT" -> "quit_debug_exception"
    [] et = "EXIT_EXCEPTION" -> "exit_exception"
    [] OTHER -> "execution_exception"

\* The end of unwind, at the root.
rethrow ==
  /\ mode = "rethrow"
  /\ LET d == maybe_delete_ignore_data(m_output_ignore_data, 1)
     IN  IF (m_output_ignore_data.live /\ ~m_output_ignore_data.m_external_root_ignorer) \/ d.live
         THEN \* one of the two CHECK_PANICs fails
              /\ mode' = "abort"
              /\ UNCHANGED << m_dbg_proper_return, retval, lvalue_list, m_output_ignore_data >>
         ELSE /\ m_output_ignore_data' = d
              /\ m_dbg_proper_return' = TRUE
              /\ lvalue_list' = m_original_lvalue_list
              /\ retval' = << Str(Rethrown(errdat.et)) >>
              /\ mode' = "thrown"
  /\ last' = "rethrow"
  /\ UNCHANGED << stack, bsp, ip, ob, regs, code, frames, root, errdat, m_unwinding_interrupt,
                  m_could_not_push_frame, globals, calls, seen, m_profiler_enabled, m_stack0, m_frame_ptr_cache, m_vm_profiler,
                  m_original_lvalue_list, lvalue_lists >>

\* vm::call after execute_code returned.
call_return ==
  /\ mode = "returned"
  /\ frames' = Keep(frames, Len(frames) - 1)
  /\ mode' = "done"
  /\ last' = "call_return"
  /\ UNCHANGED << stack, bsp, ip, ob, regs, code, root, errdat, m_unwinding_interrupt,
                  m_could_not_push_frame, m_dbg_proper_return, retval, globals, calls, seen >>
  /\ SameHost

\* vm::call, the two catch clauses: both pop the dynamic frame and throw on.
call_catch ==
  /\ mode = "thrown"
  /\ IF m_dbg_proper_return
     THEN frames' = Keep(frames, Len(frames) - 1) /\ mode' = "rethrown"
     ELSE frames' = frames /\ mode' = "escaped"
  /\ last' = "call_catch"
  /\ UNCHANGED << stack, bsp, ip, ob, regs, code, root, errdat, m_unwinding_interrupt,
                  m_could_not_push_frame, m_dbg_proper_return, retval, globals, calls, seen >>
  /\ SameHost


\* TRUE when the loop of unwind takes a value for one of the two native ints
\* of a for loop and lowers m_sp over it.
RECURSIVE UnwindSkipsValue(_, _)
UnwindSkipsValue(stk, target_stack_depth) ==
  IF Len(stk) - bsp > target_stack_depth
  THEN LET current_stack_depth == Len(stk) - bsp - N_LOCALS(regs.code)
           stack_depth_for_forloop == find_unwind_entry_for_forloop(current_stack_depth)
       IN  IF stack_depth_for_forloop # -1 /\ current_stack_depth = stack_depth_for_forloop + 3
           THEN \/ IsOv(stk[Len(stk)]) \/ IsOv(stk[Len(stk) - 1])
                \/ UnwindSkipsValue(Keep(stk, Len(stk) - 3), target_stack_depth)
           ELSE UnwindSkipsValue(Keep(stk, Len(stk) - 1), target_stack_depth)
  ELSE FALSE
(* ------------------------- global and persistent ----------------------- *)
\* octave_value_ref_persistent: a reference wrapper for the persistent
\* variable p of a scope.
RefPersistent(p) == Elem("ref", 1, << p >>)
is_global_ref(v) == v.t = "ref" /\ v.n = 0
is_persistent_ref(v) == v.t = "ref" /\ v.n = 1
\* global_type
GLOBAL == 1
PERSISTENT == 2

init_global ==
  /\ Running(GLOBAL_INIT)
  /\ arg0 \in {GLOBAL, PERSISTENT}
  /\ LET type == arg0
         slot == USHORT_FROM_UCHARS(Byte(ip + 2), Byte(ip + 3))
         name == Bytecode[regs.name_data].names[slot + 1]
         ov_slot == At(stack, bsp + slot)
         slot_already_live == is_defined(ov_slot)
         is_marked_in_VM == is_ref(ov_slot)
         has_init_code == Byte(ip + 6) # 0
         ov_default == IF slot_already_live /\ ~is_marked_in_VM THEN ov_slot ELSE Mat(<< >>)
         wrapper == IF type = GLOBAL THEN RefGlobal(name) ELSE RefPersistent(name)
         global_is_new_in_callstack == ~is_defined(globals[name])
         after == USHORT_FROM_UCHARS(Byte(ip + 7), Byte(ip + 8))
     IN  IF type = GLOBAL /\ is_marked_in_VM /\ is_persistent_ref(ov_slot)
         THEN /\ Raise(stack, << Pee("can't make persistent variable global") >>, "EXECUTION_EXC", ip + 7)
              /\ globals' = globals
         ELSE IF type = PERSISTENT /\ is_marked_in_VM /\ is_global_ref(ov_slot)
         THEN /\ Raise(stack, << Pee("can't make global variable persistent") >>, "EXECUTION_EXC", ip + 7)
              /\ globals' = globals
         ELSE /\ globals' = IF global_is_new_in_callstack
                            THEN [globals EXCEPT ![name] = ov_default]
                            ELSE globals
              /\ DISPATCH(IF ~is_marked_in_VM THEN SetAt(stack, bsp + slot, wrapper) ELSE stack,
                          IF ~has_init_code THEN ip + 7
                          ELSE IF ~global_is_new_in_callstack \/ slot_already_live THEN after
                          ELSE ip + 9)
  /\ last' = "init_global"
  /\ SameButGlobals

(* ------------------------------- ASSIGNN ------------------------------- *)
\* The slot names that begin with "%~": the outputs the caller ignores.
IgnoredNames == {"%~", "%~1"}
\* assign_n, is_ignored: whether an undefined value for the slot is let
\* through.  The host's IGNORED auto variable is the one of the running frame.
is_ignored(slot) ==
  LET tmp == frames[Len(frames)].ignored
      n_returns == IF N_RETURNS(regs.code) = -128 THEN 1 ELSE Abs(N_RETURNS(regs.code))
      outputnum == n_returns - 1 - slot
  IN  IF is_defined(tmp) /\ slot < n_returns
      THEN \E i \in 1..Len(tmp.l) : tmp.l[i].n = outputnum
      ELSE Bytecode[regs.name_data].names[slot + 1] \in IgnoredNames
\* The store of one value of the run into the slot, as both branches of the
\* loop body do it: r is the state of the loop.
AssignOne(r, slot, v) ==
  IF ~is_defined(v) /\ ~is_ignored(slot)
  THEN [r EXCEPT !.end = "error"]
  ELSE IF ~is_ref(At(r.stk, bsp + slot))
  THEN [r EXCEPT !.stk = SetAt(r.stk, bsp + slot, v), !.n_actual = r.n_actual + 1]
  ELSE [r EXCEPT !.g = set_value(At(r.stk, bsp + slot), r.g, v), !.n_actual = r.n_actual + 1]

RECURSIVE AssignList(_, _, _)
AssignList(r, slot, args) ==
  IF args = << >> \/ r.end # "loop" THEN r
  ELSE AssignList(AssignOne(r, slot, args[1]), slot, Tail(args))

\* The do ... while (n_actual < n_slots) loop of assign_n.  It ends in "done",
\* in "error" (element undefined), or in "wild" when it pops a word that is
\* no operand of the frame or reads a slot number that is none.
RECURSIVE AssignLoop(_, _)
AssignLoop(r, n_slots) ==
  IF r.end # "loop" THEN r
  ELSE IF Len(r.stk) <= bsp + N_LOCALS(regs.code) \/ r.ip + 2 > Len(code[regs.code])
  THEN [r EXCEPT !.end = "wild"]
  ELSE LET arg == r.stk[Len(r.stk)]
           slot == USHORT_FROM_UCHARS(Byte(r.ip), Byte(r.ip + 1))
           r1 == [r EXCEPT !.stk = Keep(r.stk, Len(r.stk) - 1), !.ip = r.ip + 2]
           r2 == IF slot >= N_LOCALS(regs.code) THEN [r1 EXCEPT !.end = "wild"]
                 ELSE IF is_cs_list(arg) THEN AssignList(r1, slot, arg.l)
                 ELSE AssignOne(r1, slot, arg)
       IN  IF r2.end = "loop" /\ r2.n_actual >= n_slots
           THEN [r2 EXCEPT !.end = "done"]
           ELSE AssignLoop(r2, n_slots)

assign_n ==
  /\ Running(ASSIGNN)
  /\ LET r == AssignLoop([stk |-> stack, g |-> globals, ip |-> ip + 2, n_actual |-> 0,
                          end |-> "loop"], arg0)
     IN  /\ globals' = r.g
         /\ CASE r.end = "done" -> DISPATCH(r.stk, r.ip)
              [] r.end = "error" ->
                   Raise(r.stk, << Pee("element number undefined in return list") >>,
                         "EXECUTION_EXC", r.ip)
              [] OTHER -> /\ mode' = "ub"
                          /\ UNCHANGED << stack, ip, ob >>
  /\ last' = "assign_n"
  /\ SameButGlobals

(* ------------------------ arrays and scalar indices -------------------- *)
\* The double k + 0.5.
DblFrac(k) == Elem("dbl", k, << "half" >>)
\* octave_scalar::double_value, counted in halves.
Halves(v) == 2 * v.n + (IF v.l = << "half" >> THEN 1 ELSE 0)
\* static_cast<octave_idx_type> of a double given in halves: towards zero.
ToIdx(h) == IF h >= 0 THEN h \div 2 ELSE -((-h) \div 2)
m_matrix_typeid == "mat"
is_full_num_matrix(v) == v.t = "mat"
\* A 1x1 array is held as its scalar.
Narrow(v) == IF v.t = "mat" /\ v.d = << 1, 1 >> THEN v.l[1] ELSE v
\* A numeric value seen as an array of doubles.
AsArray(v) ==
  CASE v.t = "mat" -> v
    [] v.t = "undef" -> Shaped("mat", << 0, 0 >>, << >>)
    [] v.t = "bool" -> Shaped("mat", << 1, 1 >>, << Dbl(v.n) >>)
    [] OTHER -> Shaped("mat", << 1, 1 >>, << v >>)
\* The subscripts a scalar index stands for: none for false, nothing valid
\* for a double that is no positive integer.
IndexVector(a) ==
  CASE a.t = "bool" -> [ok |-> TRUE, k |-> IF a.n = 1 THEN << 1 >> ELSE << >>]
    [] a.t = "dbl" /\ a.l = << >> /\ a.n >= 1 -> [ok |-> TRUE, k |-> << a.n >>]
    [] OTHER -> [ok |-> FALSE, k |-> << >>]
Failed(tag) == [ok |-> FALSE, v |-> Undef, tag |-> tag]
Done(v) == [ok |-> TRUE, v |-> v, tag |-> "none"]
\* octave_value::checked_full_matrix_elem with zero-based subscripts.
checked_full_matrix_elem(mat, n) ==
  IF n < numel(mat) THEN Done(mat.l[n + 1]) ELSE Failed("INDEX_ERROR")
checked_full_matrix_elem2(mat, i, j) ==
  IF i < rows(mat) /\ j < cols(mat) THEN Done(mat.l[j * rows(mat) + i + 1]) ELSE Failed("INDEX_ERROR")
\* octave_value::simple_subsref ('(', args, 1) of a numeric value with one or
\* two scalar subscripts: the element, or the tag of the exception thrown.
simple_subsref(ov, args) ==
  LET a == AsArray(ov)
      i1 == IndexVector(args[1])
      i2 == IndexVector(args[Len(args)])
  IN  IF ~i1.ok \/ ~i2.ok THEN Failed("INDEX_ERROR")
      ELSE IF i1.k = << >> \/ i2.k = << >> THEN Done(Shaped("mat", << 0, 0 >>, << >>))
      ELSE IF Len(args) = 1 THEN checked_full_matrix_elem(a, i1.k[1] - 1)
      ELSE checked_full_matrix_elem2(a, i1.k[1] - 1, i2.k[1] - 1)
\* Array<T>::resize2 with fill value 0: the r x c array a as an r2 x c2 one.
resize2(a, r2, c2) ==
  Shaped("mat", << r2, c2 >>,
         [k \in 1..(r2 * c2) |->
            LET i == (k - 1) % r2
                j == (k - 1) \div r2
            IN  IF i < rows(a) /\ j < cols(a) THEN a.l[j * rows(a) + i + 1] ELSE Dbl(0)])
\* octave_value::simple_subsasgn ('(', args, rhs) of a numeric value with
\* one or two scalar subscripts and a scalar right-hand side: the new
\* value, or the tag of the exception thrown.
simple_subsasgn(ov, args, rhs) ==
  LET a == AsArray(ov)
      x == IF rhs.t = "bool" THEN Dbl(rhs.n) ELSE rhs
      i1 == IndexVector(args[1])
      i2 == IndexVector(args[Len(args)])
      k == i1.k[1]
      j == i2.k[1]
  IN  IF ~i1.ok \/ ~i2.ok THEN Failed("INDEX_ERROR")
      ELSE IF i1.k = << >> \/ i2.k = << >> THEN Done(Narrow(a))
      ELSE IF Len(args) = 1
      THEN IF k <= numel(a) THEN Done(Narrow([a EXCEPT !.l[k] = x]))
           ELSE IF ndims(a) = 2 /\ rows(a) \in {0, 1}
           THEN Done(Narrow([resize2(a, 1, k) EXCEPT !.l[k] = x]))
           ELSE IF ndims(a) = 2 /\ cols(a) = 1
           THEN Done(Narrow([resize2(a, k, 1) EXCEPT !.l[k] = x]))
           ELSE Failed("EXECUTION_EXC")
      ELSE IF k <= rows(a) /\ j <= cols(a)
           THEN Done(Narrow([a EXCEPT !.l[(j - 1) * rows(a) + k] = x]))
           ELSE IF ndims(a) = 2
           THEN LET r2 == Max(rows(a), k)
                    b == resize2(a, r2, Max(cols(a), j))
                IN  Done(Narrow([b EXCEPT !.l[(j - 1) * r2 + k] = x]))
           ELSE Failed("EXECUTION_EXC")

(* ------------------------- indexed assignment -------------------------- *)
\* The data of a matrix is held by a rep that several values can share: the
\* field n of a matrix names its rep, 0 naming data no other value holds.
HoldsRep(v, r) == v.t = "mat" /\ r # 0 /\ v.n = r
\* How many values hold the rep r: words of the stack and global variables.
Holders(stk, g, r) ==
  Cardinality({p \in 1..Len(stk) : HoldsRep(stk[p], r)})
    + Cardinality({x \in GlobalNames : HoldsRep(g[x], r)})
\* The name of a rep no value holds.
FreshRep(stk, g) ==
  LET used == {0} \cup {stk[p].n : p \in {q \in 1..Len(stk) : stk[q].t = "mat"}}
                  \cup {g[x].n : x \in {y \in GlobalNames : g[y].t = "mat"}}
  IN  1 + CHOOSE m \in used : \A u \in used : u <= m
\* make_unique: a value that shares its data takes a copy of its own.
make_unique(stk, g, v) ==
  IF v.t = "mat" /\ Holders(stk, g, v.n) > 1 THEN [v EXCEPT !.n = FreshRep(stk, g)] ELSE v
\* xelem (k) = val on the rep r, as a value w sees it.
xelem(w, r, k, val) == IF HoldsRep(w, r) THEN [w EXCEPT !.l[k] = val] ELSE w
\* The store without the two make_unique.
StoreElement_Shared(stk, p, k, val) ==
  [q \in 1..Len(stk) |-> IF q = p + 1 THEN [stk[q] EXCEPT !.l[k] = val]
                          ELSE xelem(stk[q], At(stk, p).n, k, val)]
\* mat_ov.make_unique (); arr.make_unique (); arr.xelem (k) = val on the
\* matrix in the frame word p.
StoreElement(stk, p, k, val) ==
  LET mat_ov == make_unique(stk, globals, At(stk, p))
      own == SetAt(stk, p, mat_ov)
  IN  [q \in 1..Len(own) |-> IF q = p + 1 THEN [mat_ov EXCEPT !.l[k] = val]
                              ELSE xelem(own[q], mat_ov.n, k, val)]
StoreElementGlobals(stk, p, k, val) ==
  LET mat_ov == make_unique(stk, globals, At(stk, p))
  IN  [x \in GlobalNames |-> xelem(globals[x], mat_ov.n, k, val)]
\* The host assigns to a copy when the data is shared.
HostOwn(v, ov) ==
  IF v.t = "mat" /\ v.n # 0 THEN [v EXCEPT !.n = make_unique(stack, globals, ov).n] ELSE v
SameButCodeAndSeen == SameButCode /\ seen' = seen
\* subassign_id from "TODO: Room for performance improvement" on: the store
\* through the host.  The host's assignment is modelled for numeric targets
\* with one or two scalar subscripts.
SubassignGeneric(slot, nargs) ==
  LET rhs == TOP_OV
      args == ExpandArgs(SubSeq(stack, sp - nargs, sp - 1))
      ov == At(stack, bsp + SlotWord(slot))
      rhs1 == IF is_cs_list(rhs) THEN rhs.l[1] ELSE rhs
      stk == SetAt(stack, sp - 1, rhs1)
      r == simple_subsasgn(ov, args, rhs1)
  IN  IF is_cs_list(rhs) /\ rhs.l = << >>
      THEN Raise(stack, << >>, "INVALID_N_EL_RHS_IN_ASSIGNMENT", HandlerIp + 1)
      ELSE /\ ov.t \in {"mat", "dbl", "undef"}
           /\ rhs1.t \in {"dbl", "bool"}
           /\ Len(args) \in {1, 2}
           /\ \A i \in 1..Len(args) : args[i].t \in {"dbl", "bool"}
           /\ IF r.ok
              THEN DISPATCH(STACK_DESTROY(SetAt(stk, bsp + SlotWord(slot), HostOwn(r.v, ov)), nargs + 1),
                            HandlerIp + 1)
              ELSE Raise(stk, Payload(r.tag), r.tag, HandlerIp + 1)

\* The store of subassign_id_mat_1d, the index in bounds and an integer.
SubBadIndex1d(slot) ==
  LET mat_ov == At(stack, bsp + SlotWord(slot))
      idx_dbl_1 == Halves(stack[sp - 1]) - 2
      idx == ToIdx(idx_dbl_1)
  IN  idx >= numel(mat_ov) \/ idx < 0 \/ 2 * idx # idx_dbl_1
SubStore1d(slot) ==
  LET rhs == TOP_OV
      mat_ov == At(stack, bsp + SlotWord(slot))
      idx == ToIdx(Halves(stack[sp - 1]) - 2)
  IN  /\ DISPATCH(STACK_DESTROY(StoreElement(stack, bsp + SlotWord(slot), idx + 1, rhs), 2),
                  HandlerIp + 1)
      /\ globals' = StoreElementGlobals(stack, bsp + SlotWord(slot), idx + 1, rhs)

\* The store of subassign_id_mat_2d, the indices in bounds and integers.
SubBadIndex2d(slot) ==
  LET mat_ov == At(stack, bsp + SlotWord(slot))
      idx2_dbl_1 == Halves(stack[sp - 1]) - 2
      idx2 == ToIdx(idx2_dbl_1)
      idx1_dbl_1 == Halves(stack[sp - 2]) - 2
      idx1 == ToIdx(idx1_dbl_1)
  IN  \/ idx1 >= mat_ov.d[1] \/ idx1 < 0 \/ 2 * idx1 # idx1_dbl_1
      \/ idx2 >= mat_ov.d[2] \/ idx2 < 0 \/ 2 * idx2 # idx2_dbl_1
      \/ ndims(mat_ov) # 2
SubStore2d(slot) ==
  LET rhs == TOP_OV
      mat_ov == At(stack, bsp + SlotWord(slot))
      idx2 == ToIdx(Halves(stack[sp - 1]) - 2)
      idx1 == ToIdx(Halves(stack[sp - 2]) - 2)
  IN  /\ DISPATCH(STACK_DESTROY(StoreElement(stack, bsp + SlotWord(slot),
                                             idx2 * mat_ov.d[1] + idx1 + 1, rhs), 3),
                  HandlerIp + 1)
      /\ globals' = StoreElementGlobals(stack, bsp + SlotWord(slot),
                                        idx2 * mat_ov.d[1] + idx1 + 1, rhs)

\* The tests of the types in subassign_id_mat_2d, subassign_id_mat_1d and
\* subassign_id.
SubMismatch2d(slot) ==
  \/ type_id(TOP_OV) # m_scalar_typeid
  \/ type_id(At(stack, bsp + SlotWord(slot))) # m_matrix_typeid
  \/ type_id(stack[sp - 1]) # m_scalar_typeid
  \/ type_id(stack[sp - 2]) # type_id(stack[sp - 1])
SubMismatch1d(slot) ==
  \/ type_id(TOP_OV) # m_scalar_typeid
  \/ type_id(At(stack, bsp + SlotWord(slot))) # m_matrix_typeid
  \/ type_id(stack[sp - 1]) # m_scalar_typeid
SubTypesFit(slot, nargs) ==
  /\ nargs \in {1, 2}
  /\ \A i \in 1..nargs : type_id(stack[sp - i]) = m_scalar_typeid
  /\ type_id(At(stack, bsp + SlotWord(slot))) = m_matrix_typeid
  /\ type_id(TOP_OV) = m_scalar_typeid
\* subassign_id is not to specialize again.
AlreadySpecialized_Never(cd, slot, opcode) == FALSE
\* subassign_id, ip past nargs: ip[-3 + wide_opcode_offset] is the
\* specialized opcode already.
AlreadySpecialized(cd, slot, opcode) ==
  cd[HandlerIp + 1 - 3 + wide_opcode_offset(slot) + 1] = opcode

\* The handlers control passes through while one indexed assignment is
\* executed, from the handler h on with cd for the code of the unit, and the
\* code the last of them finds.  No more than n handlers are followed.
RECURSIVE SubassignRoute(_, _, _)
SubassignRoute(h, cd, n) ==
  LET slot == WideArg0
      nargs == Byte(HandlerIp)
      opcode == IF nargs = 1 THEN SUBASSIGN_ID_MAT_1D ELSE SUBASSIGN_ID_MAT_2D
      Goto(h2, cd2) == LET r == SubassignRoute(h2, cd2, n - 1)
                       IN  [path |-> << h >> \o r.path, cd |-> r.cd, cut |-> r.cut]
      Stay == [path |-> << h >>, cd |-> cd, cut |-> FALSE]
  IN  IF n = 0 THEN [path |-> << >>, cd |-> cd, cut |-> TRUE]
      ELSE CASE h = "subassign_id_mat_2d" ->
                  IF SubMismatch2d(slot)
                  THEN Goto("subassign_id", Rewritten(cd, HandlerIp, slot, SUBASSIGN_ID))
                  ELSE IF SubBadIndex2d(slot) THEN Goto("subassign_id", cd) ELSE Stay
             [] h = "subassign_id_mat_1d" ->
                  IF SubMismatch1d(slot)
                  THEN Goto("subassign_id", Rewritten(cd, HandlerIp, slot, SUBASSIGN_ID))
                  ELSE IF SubBadIndex1d(slot) THEN Goto("subassign_id", cd) ELSE Stay
             [] OTHER ->
                  IF SubTypesFit(slot, nargs) /\ ~AlreadySpecialized(cd, slot, opcode)
                  THEN Goto(IF nargs = 1 THEN "subassign_id_mat_1d" ELSE "subassign_id_mat_2d",
                            Rewritten(cd, HandlerIp, slot, opcode))
                  ELSE Stay

\* What the handler the route ends in does.  A route that does not end
\* leaves the machine inside the instruction.
SubassignEnd(r) ==
  IF r.cut
  THEN mode' = "hang" /\ UNCHANGED << stack, ip, ob, globals >>
  ELSE CASE r.path[Len(r.path)] = "subassign_id_mat_2d" -> SubStore2d(WideArg0)
         [] r.path[Len(r.path)] = "subassign_id_mat_1d" -> SubStore1d(WideArg0)
         [] OTHER -> SubassignGeneric(WideArg0, Byte(HandlerIp)) /\ globals' = globals
SubassignRun(h) ==
  LET r == SubassignRoute(h, code[regs.code], MaxPasses)
  IN  code' = [code EXCEPT ![regs.code] = r.cd] /\ SubassignEnd(r)

subassign_id_mat_2d ==
  /\ Entered(SUBASSIGN_ID_MAT_2D)
  /\ SubassignRun("subassign_id_mat_2d")
  /\ last' = "subassign_id_mat_2d"
  /\ SameButCodeAndGlobals /\ seen' = seen

\* A subassign_id_mat_1d that keeps its opcode whatever the types are.
subassign_id_mat_1d_KeepsOpcode ==
  /\ Entered(SUBASSIGN_ID_MAT_1D)
  /\ code' = code
  /\ SubassignEnd(SubassignRoute("subassign_id_mat_1d", code[regs.code], MaxPasses))
  /\ last' = "subassign_id_mat_1d"
  /\ SameButCodeAndGlobals /\ seen' = seen

subassign_id_mat_1d ==
  /\ Entered(SUBASSIGN_ID_MAT_1D)
  /\ SubassignRun("subassign_id_mat_1d")
  /\ last' = "subassign_id_mat_1d"
  /\ SameButCodeAndGlobals /\ seen' = seen

subassign_id ==
  /\ Entered(SUBASSIGN_ID)
  /\ SubassignRun("subassign_id")
  /\ last' = "subassign_id"
  /\ SameButCodeAndGlobals /\ seen' = seen

(* ------------------------- scalar matrix index ------------------------- *)
\* index_id1, case OCT_SUBSREF, from "octave_value_list retval" on: the
\* index through the host, modelled for numeric values with one or two
\* scalar subscripts.
IndexSubsref(n_args_on_stack) ==
  LET ov == stack[sp - n_args_on_stack]
      args == ExpandArgs(SubSeq(stack, sp - n_args_on_stack + 1, sp))
      r == simple_subsref(ov, args)
  IN  /\ ov.t \in {"mat", "dbl", "bool"}
      /\ Len(args) \in {1, 2}
      /\ \A i \in 1..Len(args) : args[i].t \in {"dbl", "bool"}
      /\ IF r.ok
         THEN DISPATCH(STACK_DESTROY(stack, n_args_on_stack + 1) \o << r.v >>, HandlerIp + 1)
         ELSE Raise(stack, Payload(r.tag), r.tag, HandlerIp + 1)

\* index_id1_mat_1d after its test of the types.
IndexMat1d ==
  LET arg1 == TOP_OV
      mat == stack[sp - 1]
      idx_double == Halves(arg1)
      idx == ToIdx(idx_double)
      ans == checked_full_matrix_elem(mat, idx - 1)
  IN  IF 2 * idx # idx_double \/ idx <= 0 \/ ~ans.ok
      THEN Raise(stack, Payload("INDEX_ERROR"), "INDEX_ERROR", HandlerIp + 1)
      ELSE DISPATCH(STACK_DESTROY(stack, 2) \o << ans.v >>, HandlerIp + 1)

\* index_id1_mat_2d after its test of the types.
IndexMat2d ==
  LET arg2 == TOP_OV
      arg1 == stack[sp - 1]
      mat == stack[sp - 2]
      idx1_double == Halves(arg1)
      idx1 == ToIdx(idx1_double)
      idx2_double == Halves(arg2)
      idx2 == ToIdx(idx2_double)
      ans == checked_full_matrix_elem2(mat, idx1 - 1, idx2 - 1)
  IN  IF 2 * idx1 # idx1_double \/ idx1 <= 0 \/ 2 * idx2 # idx2_double \/ idx2 <= 0 \/ ~ans.ok
      THEN Raise(stack, Payload("INDEX_ERROR"), "INDEX_ERROR", HandlerIp + 1)
      ELSE DISPATCH(STACK_DESTROY(stack, 3) \o << ans.v >>, HandlerIp + 1)

\* The tests of the types in index_id1_mat_1d, index_id1_mat_2d and index_id1.
IdxMismatch1d == type_id(TOP_OV) # m_scalar_typeid \/ ~is_full_num_matrix(stack[sp - 1])
IdxMismatch2d ==
  \/ ~(type_id(stack[sp - 1]) = m_scalar_typeid /\ type_id(TOP_OV) = m_scalar_typeid)
  \/ ~is_full_num_matrix(stack[sp - 2])
IdxTypesFit(n_args_on_stack) ==
  /\ vm_dispatch_call(At(stack, sp - 1 - n_args_on_stack)) = "OCT_SUBSREF"
  /\ \A i \in 0..(n_args_on_stack - 1) : type_id(stack[sp - i]) = m_scalar_typeid
  /\ is_full_num_matrix(At(stack, sp - 1 - n_args_on_stack))
  /\ n_args_on_stack \in {1, 2}

\* The handlers control passes through while one index expression is
\* executed, from the handler h on, and the code the last of them finds.
RECURSIVE IndexRoute(_, _, _)
IndexRoute(h, cd, n) ==
  LET slot == WideArg0
      n_args_on_stack == Byte(HandlerIp)
      Goto(h2, cd2) == LET r == IndexRoute(h2, cd2, n - 1)
                       IN  [path |-> << h >> \o r.path, cd |-> r.cd, cut |-> r.cut]
      Stay == [path |-> << h >>, cd |-> cd, cut |-> FALSE]
  IN  IF n = 0 THEN [path |-> << >>, cd |-> cd, cut |-> TRUE]
      ELSE CASE h = "index_id1_mat_1d" ->
                  IF IdxMismatch1d
                  THEN Goto("index_id1", Rewritten(cd, HandlerIp, slot, INDEX_ID_NARGOUT1))
                  ELSE Stay
             [] h = "index_id1_mat_2d" ->
                  IF IdxMismatch2d
                  THEN Goto("index_id1", Rewritten(cd, HandlerIp, slot, INDEX_ID_NARGOUT1))
                  ELSE Stay
             [] OTHER ->
                  IF IdxTypesFit(n_args_on_stack)
                  THEN Goto(IF n_args_on_stack = 1 THEN "index_id1_mat_1d" ELSE "index_id1_mat_2d",
                            Rewritten(cd, HandlerIp, slot,
                                      IF n_args_on_stack = 1 THEN INDEX_ID1_MAT_1D
                                      ELSE INDEX_ID1_MAT_2D))
                  ELSE Stay

\* What the handler the route ends in does: index_id1 indexes a value that
\* is no function through the host and calls one that is.
IndexEnd(r) ==
  IF r.cut
  THEN mode' = "hang" /\ UNCHANGED << stack, ip, ob >> /\ SameButCodeAndSeen
  ELSE CASE r.path[Len(r.path)] = "index_id1_mat_1d" -> IndexMat1d /\ SameButCodeAndSeen
         [] r.path[Len(r.path)] = "index_id1_mat_2d" -> IndexMat2d /\ SameButCodeAndSeen
         [] OTHER ->
              IF vm_dispatch_call(At(stack, sp - 1 - Byte(HandlerIp))) = "OCT_SUBSREF"
              THEN IndexSubsref(Byte(HandlerIp)) /\ SameButCodeAndSeen
              ELSE IndexId(WideArg0, 1, Byte(HandlerIp), HandlerIp + 1) /\ SameForCall
IndexRun(h) ==
  LET r == IndexRoute(h, code[regs.code], MaxPasses)
  IN  code' = [code EXCEPT ![regs.code] = r.cd] /\ IndexEnd(r)

\* An index_id1_mat_1d that hands a fractional index to the generic opcode.
index_id1_mat_1d_FallsBack ==
  /\ Entered(INDEX_ID1_MAT_1D)
  /\ IF type_id(TOP_OV) # m_scalar_typeid \/ ~is_full_num_matrix(stack[sp - 1])
        \/ TOP_OV.l # << >>
     THEN code' = RewriteAt(HandlerIp, WideArg0, INDEX_ID_NARGOUT1) /\ IndexSubsref(Byte(HandlerIp))
     ELSE code' = code /\ IndexMat1d
  /\ last' = "index_id1_mat_1d"
  /\ SameButCodeAndSeen

index_id1_mat_1d ==
  /\ Entered(INDEX_ID1_MAT_1D)
  /\ IndexRun("index_id1_mat_1d")
  /\ last' = "index_id1_mat_1d"

index_id1_mat_2d ==
  /\ Entered(INDEX_ID1_MAT_2D)
  /\ IndexRun("index_id1_mat_2d")
  /\ last' = "index_id1_mat_2d"

\* index_id1: a value that is no function is indexed, through the
\* specialized handler when it is a full matrix with scalar subscripts.
index_id1 ==
  /\ Entered(INDEX_ID_NARGOUT1)
  /\ IndexRun("index_id1")
  /\ last' = "index_id1"

\* The values of the slot A, the subscripts and the right-hand sides.
MatValues ==
  {Mat(<< Dbl(1), Dbl(2), Dbl(3) >>),
   Shaped("mat", << 2, 2 >>, << Dbl(1), Dbl(2), Dbl(3), Dbl(4) >>),
   Shaped("mat", << 2, 1, 2 >>, << Dbl(1), Dbl(2), Dbl(3), Dbl(4) >>),
   Dbl(5)}
SubscriptValues == {Dbl(0), Dbl(1), Dbl(2), Dbl(3), Dbl(5), DblFrac(1), Bool(TRUE)}
AssignedValues == {Dbl(9), Bool(TRUE), CsList(<< >>), CsList(<< Dbl(9) >>)}
\* The opcode bytes an instruction compiled as op can hold after earlier
\* executions have specialized it.
OpcodeForms(f) ==
  CASE f = 28 -> {SUBASSIGN_ID, SUBASSIGN_ID_MAT_1D}
    [] f = 29 -> {SUBASSIGN_ID, SUBASSIGN_ID_MAT_2D}
    [] f = 30 -> {INDEX_ID_NARGOUT1, INDEX_ID1_MAT_1D}
    [] OTHER -> {INDEX_ID_NARGOUT1, INDEX_ID1_MAT_2D}
\* An indexing unit about to run its indexed assignment or its index
\* expression: the subscripts (under them the indexed value, over them the
\* right-hand side) are on the operand stack and the instruction is as an
\* earlier execution left it.
InitMatrix ==
  /\ \E f \in 28..31, A \in MatValues \cup {Undef}, i \in SubscriptValues, j \in SubscriptValues,
        rhs \in AssignedValues :
     \E op \in OpcodeForms(f) :
        /\ (f \in {28, 30} => j = i)
        /\ (f \in {30, 31} => is_defined(A) /\ rhs = Dbl(9))
        /\ root = [fn |-> f, args |-> << >>, nargout |-> 0, dbg |-> FALSE, hostfail |-> FALSE]
        /\ stack = << IntE(0), A >>
                   \o (IF f \in {30, 31} THEN << A >> ELSE << >>)
                   \o (IF f \in {29, 31} THEN << i, j >> ELSE << i >>)
                   \o (IF f \in {28, 29} THEN << rhs >> ELSE << >>)
        /\ regs = [code |-> f, data |-> f, name_data |-> f, unwind_data |-> f]
        /\ frames = << HostFrame, [fn |-> f, closure |-> FALSE, caught |-> FALSE, nargin |-> 0,
                                   ignored |-> Undef] >>
        /\ code = [u \in Units |-> IF u = f THEN [Bytecode[u].code EXCEPT ![5] = op]
                                   ELSE Bytecode[u].code]
  /\ globals = [g \in GlobalNames |-> Undef]
  /\ bsp = 0
  /\ ip = 4
  /\ ob = FALSE
  /\ mode = "run"
  /\ errdat = NoError
  /\ m_unwinding_interrupt = FALSE
  /\ m_could_not_push_frame = FALSE
  /\ m_dbg_proper_return = FALSE
  /\ retval = << >>
  /\ calls = << >>
  /\ seen = {}
  /\ last = "init"
  /\ HostInRoot

(* --------------------------- cell literals ------------------------------ *)
\* octave_int64_scalar: the column and the row counter of a cell literal.
Int64(n) == Elem("int64", n, << >>)
\* The element a Cell is filled with where nothing was stored.
CellFill == Mat(<< >>)
\* Cell cell (n_rows, n_cols)
NewCell(n_rows, n_cols) == Shaped("cell", << n_rows, n_cols >>, [k \in 1..(n_rows * n_cols) |-> CellFill])
\* Array<T>::resize (dim_vector (r2, c2)) of a Cell.
cell_resize(c, r2, c2) ==
  Shaped("cell", << r2, c2 >>,
         [k \in 1..(r2 * c2) |->
            LET i == (k - 1) % r2
                j == (k - 1) \div r2
            IN  IF i < rows(c) /\ j < cols(c) THEN c.l[j * rows(c) + i + 1] ELSE CellFill])
\* cell (i, j) = v.  Array<T>::operator () checks no range: the element at
\* the linear index is written when the buffer holds it, and the store is
\* outside of the buffer otherwise.
cell_store(r, i, j, v) ==
  LET k == j * rows(r.cell) + i
  IN  IF k < numel(r.cell) THEN [r EXCEPT !.cell.l[k + 1] = v] ELSE [r EXCEPT !.oob = TRUE]
\* for (i = 0; i < n; i++) cell (i_row_idx, i_col_idx + i) = ovl (i);
RECURSIVE cell_store_list(_, _, _, _)
cell_store_list(r, i_row_idx, i_col_idx, ovl) ==
  IF ovl = << >> THEN r
  ELSE cell_store_list(cell_store(r, i_row_idx, i_col_idx, ovl[1]), i_row_idx, i_col_idx + 1, Tail(ovl))

push_cell ==
  /\ Running(PUSH_CELL)
  /\ LET n_rows == arg0
         n_cols == Byte(ip + 2)
     IN  DISPATCH(stack \o << NewCell(n_rows, n_cols), Int64(0), Int64(0) >>, ip + 3)
  /\ last' = "push_cell"
  /\ Same

\* The first part of append_cell: the element ov goes into the row i_row_idx
\* at the column i_col_idx.  n_rows is what the cell had when the handler
\* began; n_cols and i_col_idx are as the handler leaves them.
AppendElement(cell, i_row_idx, i_col_idx, ov) ==
  LET r0 == [cell |-> cell, n_rows |-> rows(cell), n_cols |-> cols(cell),
             i_col_idx |-> i_col_idx, oob |-> FALSE]
  IN  IF is_cs_list(ov)
      THEN LET n == Len(ov.l)
               r1 == IF i_row_idx = 0 /\ i_col_idx + n > r0.n_cols
                     THEN [r0 EXCEPT !.cell = cell_resize(cell, r0.n_rows, i_col_idx + n),
                                     !.n_cols = i_col_idx + n]
                     ELSE r0
               r2 == IF i_col_idx + n <= r1.n_cols
                     THEN cell_store_list(r1, i_row_idx, i_col_idx, ov.l)
                     ELSE r1
           IN  [r2 EXCEPT !.i_col_idx = i_col_idx + n]
      ELSE IF is_defined(ov)
      THEN LET r1 == IF i_row_idx = 0 /\ i_col_idx >= r0.n_cols
                     THEN [r0 EXCEPT !.cell = cell_resize(cell, 1, i_col_idx + 1),
                                     !.n_cols = r0.n_cols + 1]
                     ELSE r0
               r2 == IF i_col_idx < r1.n_cols
                     THEN cell_store(r1, i_row_idx, i_col_idx, ov)
                     ELSE r1
           IN  [r2 EXCEPT !.i_col_idx = i_col_idx + 1]
      ELSE r0

\* The second part of append_cell: what the end of a row does to the cell
\* and to the counters.  fin tells that the counters are destroyed.
EndOfRow(lst, r, i_row) ==
  LET mismatch == r.i_col_idx # 0 /\ r.i_col_idx # r.n_cols
      i_col_idx == r.i_col_idx
  IN  CASE lst = 1 ->
             [err |-> mismatch, fin |-> FALSE, cell |-> r.cell, i_col |-> 0,
              i_row |-> i_row + (IF i_col_idx # 0 THEN 1 ELSE 0)]
        [] lst = 2 ->
             LET i_row_idx == IF i_col_idx # 0 \/ r.n_cols = 0 THEN i_row + 1 ELSE i_row
             IN  [err |-> mismatch, fin |-> TRUE,
                  cell |-> IF i_row_idx # r.n_rows THEN cell_resize(r.cell, i_row_idx, r.n_cols)
                           ELSE r.cell,
                  i_col |-> i_col_idx, i_row |-> i_row]
        [] lst = 3 ->
             [err |-> FALSE, fin |-> TRUE,
              cell |-> IF i_col_idx < r.n_cols
                       THEN cell_resize(r.cell, IF i_col_idx # 0 THEN 1 ELSE 0, i_col_idx)
                       ELSE r.cell,
              i_col |-> i_col_idx, i_row |-> i_row]
        [] lst = 4 ->
             [err |-> FALSE, fin |-> FALSE,
              cell |-> IF i_col_idx < r.n_cols THEN cell_resize(r.cell, r.n_rows, i_col_idx)
                       ELSE r.cell,
              i_col |-> 0, i_row |-> i_row + 1]
        [] OTHER ->
             [err |-> FALSE, fin |-> FALSE, cell |-> r.cell, i_col |-> i_col_idx, i_row |-> i_row]

append_cell ==
  /\ Running(APPEND_CELL)
  /\ LET ov == TOP_OV
         stk == STACK_DESTROY(stack, 1)
         p == Len(stk)
         r == AppendElement(stk[p - 2], stk[p].n, stk[p - 1].n, ov)
         e == EndOfRow(arg0, r, stk[p].n)
         counted == [stk EXCEPT ![p - 1] = Int64(r.i_col_idx)]
         done == [stk EXCEPT ![p - 2] = e.cell, ![p - 1] = Int64(e.i_col), ![p] = Int64(e.i_row)]
     IN  \/ /\ e.err
            /\ Raise([counted EXCEPT ![p - 2] = r.cell],
                     << Pee("number of columns must match") >>, "EXECUTION_EXC", ip + 2)
         \/ /\ ~e.err
            /\ DISPATCH(IF e.fin THEN STACK_DESTROY(done, 2) ELSE done, ip + 2)
         \/ \* a store outside of the buffer of the cell
            /\ r.oob
            /\ mode' = "ub"
            /\ UNCHANGED << stack, ip, ob >>
  /\ last' = "append_cell"
  /\ Same

\* The units that build a cell literal.
CellUnits == 32..34 \cup {52}
\* The values of the element expressions of a cell literal.
CellArgs == {Dbl(7), Undef, CsList(<< >>), CsList(<< Dbl(1), Dbl(2) >>),
             CsList(<< Dbl(1), Dbl(2), Dbl(3) >>)}
\* A cell literal unit about to build its cell: the slots x, y and z hold
\* what the element expressions of the literal give.
InitCell ==
  /\ \E f \in CellUnits, x \in CellArgs, y \in CellArgs, z \in CellArgs :
        /\ (f = 32 => z = Undef)
        /\ root = [fn |-> f, args |-> << >>, nargout |-> 0, dbg |-> FALSE, hostfail |-> FALSE]
        /\ stack = << IntE(0), Undef, x, y, z >>
        /\ regs = [code |-> f, data |-> f, name_data |-> f, unwind_data |-> f]
        /\ frames = << HostFrame, [fn |-> f, closure |-> FALSE, caught |-> FALSE, nargin |-> 0,
                                   ignored |-> Undef] >>
  /\ code = [u \in Units |-> Bytecode[u].code]
  /\ globals = [g \in GlobalNames |-> Undef]
  /\ bsp = 0
  /\ ip = 4
  /\ ob = FALSE
  /\ mode = "run"
  /\ errdat = NoError
  /\ m_unwinding_interrupt = FALSE
  /\ m_could_not_push_frame = FALSE
  /\ m_dbg_proper_return = FALSE
  /\ retval = << >>
  /\ calls = << >>
  /\ seen = {}
  /\ last = "init"
  /\ HostInRoot

(* --------------------------- ignored outputs --------------------------- *)
\* One of the CHECK_PANICs of set_ignore, set_ignore_anon, clear_ignore fails.
IgnorePanics(d, with_pending) ==
  \/ (with_pending /\ is_defined(d.m_ov_pending_ignore_matrix))
  \/ Len(d.m_v_lvalue_list) = 0
  \/ Len(d.m_v_owns_lvalue_list) # Len(d.m_v_lvalue_list)

\* output_ignore_data::set_ignore: what becomes of the object; the evaluator
\* gets new_lval_list.
set_ignore(d, ignore_matrix, tw) ==
  LET n == Len(d.m_v_lvalue_list)
  IN  [d EXCEPT !.m_ov_pending_ignore_matrix = ignore_matrix,
                !.m_v_owns_lvalue_list[n] = TRUE,
                !.m_v_lvalue_list[n] = tw]

\* output_ignore_data::set_ignore_anon: the evaluator gets the list of the
\* last entry.
set_ignore_anon(d, ignore_matrix) == [d EXCEPT !.m_ov_pending_ignore_matrix = ignore_matrix]

\* clear_ignore without the delete of the owned list.
clear_ignore_KeepsList(d, tw, heap) ==
  LET n == Len(d.m_v_lvalue_list)
  IN  [d |-> [d EXCEPT !.m_v_owns_lvalue_list[n] = FALSE,
                       !.m_v_lvalue_list[n] = nullptr,
                       !.m_ov_pending_ignore_matrix = Undef],
       tw |-> d.m_v_lvalue_list[n],
       heap |-> heap]

\* output_ignore_data::clear_ignore with the evaluator's lvalue list tw.
clear_ignore(d, tw, heap) ==
  LET n == Len(d.m_v_lvalue_list)
  IN  [d |-> [d EXCEPT !.m_v_owns_lvalue_list[n] = FALSE,
                       !.m_v_lvalue_list[n] = nullptr,
                       !.m_ov_pending_ignore_matrix = Undef],
       tw |-> d.m_v_lvalue_list[n],
       heap |-> IF d.m_v_owns_lvalue_list[n] THEN Delete(heap, tw) ELSE heap]

\* The frame conditions of the three handlers.
SameButIgnore == UNCHANGED << bsp, regs, code, frames, root, errdat, m_unwinding_interrupt,
                              m_could_not_push_frame, m_dbg_proper_return, retval, globals,
                              calls, seen, m_profiler_enabled, m_stack0, m_frame_ptr_cache, m_vm_profiler,
                              m_original_lvalue_list >>

set_ignore_outputs ==
  /\ Running(SET_IGNORE_OUTPUTS)
  /\ LET d == IF m_output_ignore_data.live THEN m_output_ignore_data ELSE NewIgnoreData
         n_ignored == arg0
         n_total == Byte(ip + 2)
         M == Mat([i \in 1..n_ignored |-> Dbl(Byte(ip + 2 + i))])
         new_lvalue_list == Len(lvalue_lists) + 1
     IN  IF IgnorePanics(d, TRUE)
         THEN /\ mode' = "abort"
              /\ m_output_ignore_data' = d
              /\ UNCHANGED << stack, ip, ob, lvalue_list, lvalue_lists >>
         ELSE /\ m_output_ignore_data' = set_ignore(d, M, lvalue_list)
              /\ lvalue_list' = new_lvalue_list
              /\ lvalue_lists' = Append(lvalue_lists, 0)
              /\ DISPATCH(stack, ip + 3 + n_ignored)
  /\ last' = "set_ignore_outputs"
  /\ SameButIgnore

RECURSIVE ClearSlots(_, _, _)
ClearSlots(stk, at, n_slots) ==
  IF n_slots = 0 THEN stk
  ELSE ClearSlots(SetAt(stk, bsp + USHORT_FROM_UCHARS(Byte(at), Byte(at + 1)), Undef),
                  at + 2, n_slots - 1)

clear_ignore_outputs ==
  /\ Running(CLEAR_IGNORE_OUTPUTS)
  /\ LET d == m_output_ignore_data
         n_slots == arg0
     IN  IF d.live /\ IgnorePanics(d, FALSE)
         THEN /\ mode' = "abort"
              /\ UNCHANGED << stack, ip, ob, lvalue_list, lvalue_lists, m_output_ignore_data >>
         ELSE LET c == IF d.live THEN clear_ignore(d, lvalue_list, lvalue_lists)
                       ELSE [d |-> d, tw |-> lvalue_list, heap |-> lvalue_lists]
              IN  /\ m_output_ignore_data' = maybe_delete_ignore_data(c.d, 1)
                  /\ lvalue_list' = c.tw
                  /\ lvalue_lists' = c.heap
                  /\ DISPATCH(ClearSlots(stack, ip + 2, n_slots), ip + 2 + 2 * n_slots)
  /\ last' = "clear_ignore_outputs"
  /\ SameButIgnore

anon_maybe_set_ignore_output ==
  /\ Running(ANON_MAYBE_SET_IGNORE_OUTPUT)
  /\ LET d == m_output_ignore_data
         current_ignore_matrix == frames[Len(frames)].ignored
     IN  IF d.live /\ IgnorePanics(d, TRUE)
         THEN /\ mode' = "abort"
              /\ UNCHANGED << stack, ip, ob, lvalue_list, m_output_ignore_data >>
         ELSE /\ m_output_ignore_data' = IF d.live THEN set_ignore_anon(d, current_ignore_matrix) ELSE d
              /\ lvalue_list' = IF d.live THEN d.m_v_lvalue_list[Len(d.m_v_lvalue_list)] ELSE lvalue_list
              /\ DISPATCH_1BYTEOP(stack)
  /\ last' = "anon_maybe_set_ignore_output"
  /\ UNCHANGED lvalue_lists
  /\ SameButIgnore

\* The calls with ignored outputs: of ign, of top which calls ign, and of
\* ignh with a handle to @(c) vout (c); the host may ignore the first output
\* of the root routine itself.
IgnoreInputs ==
  {[fn |-> f, args |-> << c >>, nargout |-> 0, dbg |-> FALSE, hostfail |-> hf, ignored |-> ig] :
     f \in {37, 38}, c \in {Undef, Dbl(1), CellV(<< >>), CellV(<< Dbl(1), Dbl(2) >>)},
     hf \in BOOLEAN, ig \in {Mat(<< >>), Mat(<< Dbl(1) >>)}}
  \cup {[fn |-> 40, args |-> << FHandle(39), c >>, nargout |-> 0, dbg |-> FALSE, hostfail |-> FALSE,
         ignored |-> ig] :
          c \in {Dbl(1), CellV(<< Dbl(1), Dbl(2) >>)}, ig \in {Mat(<< >>), Mat(<< Dbl(1) >>)}}
InitIgnore == Start(IgnoreInputs)
(* ------------------------------ for loops ------------------------------- *)
\* What the loop units iterate over: nothing, a scalar, a row, a matrix, a
\* cell, arrays without rows or without columns, and ranges.
LoopIterables ==
  {Undef, Dbl(1), Mat(<< Dbl(1), Dbl(2) >>), Mat(<< >>),
   Shaped("cell", << 0, 3 >>, << >>),
   Shaped("mat", << 2, 2 >>, << Dbl(1), Dbl(2), Dbl(3), Dbl(4) >>),
   CellV(<< Dbl(1), CellV(<< >>) >>),
   Range(1, 0), Range(1, 1), Range(0, MaxRange)}
LoopInputs ==
  {[fn |-> f, args |-> << x >>, nargout |-> 0, dbg |-> FALSE, hostfail |-> FALSE] :
     f \in {41, 42}, x \in LoopIterables}
InitLoop == Start(LoopInputs)

(* --------------------------- for [v, k] = s ----------------------------- *)
\* A 1x1 struct: l holds the field names and their contents in turn.
StructV(l) == [t |-> "struct", n |-> 0, l |-> l, d |-> << 1, 1 >>]
isstruct(v) == v.t = "struct"
\* octave_map::keys and ::contents of a field of a 1x1 struct.
keys(v) == [i \in 1..(Len(v.l) \div 2) |-> v.l[2 * i - 1]]
contents(v, i) == v.l[2 * i]

for_complex_setup ==
  /\ Running(FOR_COMPLEX_SETUP)
  /\ LET ov_rhs == TOP_OV
         target == USHORT_FROM_UCHARS(arg0, Byte(ip + 2))
         n == Len(keys(ov_rhs))
     IN  IF ~is_defined(ov_rhs)
         THEN DISPATCH(stack \o << IntE(1), IntE(2) >>, target)
         ELSE IF ~isstruct(ov_rhs)
         THEN Raise(stack \o << IntE(1), IntE(2) >>,
                    << Pee("in statement 'for [X, Y] = VAL', VAL must be a structure") >>,
                    "EXECUTION_EXC", ip + 3)
         ELSE DISPATCH(stack \o << IntE(n), IntE(-1) >>, ip + 3)
  /\ last' = "for_complex_setup"
  /\ Same

\* The second test of for_complex_cond asks ov_val.is_ref () before it stores
\* the key: ref_rep () of a key slot that holds no wrapper is not defined.
for_complex_cond ==
  /\ Running(FOR_COMPLEX_COND)
  /\ LET counter == TOP_OV.n + 1
         n == At(stack, sp - 2).n
         ov_rhs == At(stack, sp - 3)
         stk == SetAt(stack, sp - 1, IntE(counter))
         after == USHORT_FROM_UCHARS(arg0, Byte(ip + 2))
         slot_key == USHORT_FROM_UCHARS(Byte(ip + 3), Byte(ip + 4))
         slot_value == USHORT_FROM_UCHARS(Byte(ip + 5), Byte(ip + 6))
         key == keys(ov_rhs)[counter + 1]
         val == contents(ov_rhs, counter + 1)
         ov_key == At(stk, bsp + slot_key)
         ov_val == At(stk, bsp + slot_value)
         stk_val == IF is_ref(ov_val) THEN stk ELSE SetAt(stk, bsp + slot_value, val)
         g_val == IF is_ref(ov_val) THEN set_value(ov_val, globals, val) ELSE globals
     IN  IF counter = n
         THEN DISPATCH(stk, after) /\ globals' = globals
         ELSE IF is_ref(At(stk_val, bsp + slot_value))
         THEN IF is_ref(ov_key)
              THEN DISPATCH(stk_val, ip + 7) /\ globals' = set_value(ov_key, g_val, key)
              ELSE /\ mode' = "ub"
                   /\ globals' = g_val
                   /\ UNCHANGED << stack, ip, ob >>
         ELSE DISPATCH(SetAt(stk_val, bsp + slot_key, key), ip + 7) /\ globals' = g_val
  /\ last' = "for_complex_cond"
  /\ SameButGlobals

\* What cloop runs over, and what its two slots hold when the loop begins.
ComplexRhs == {Undef, Dbl(1), StructV(<< >>), StructV(<< Str("a"), Dbl(1) >>),
               StructV(<< Str("a"), Dbl(1), Str("b"), CellV(<< >>) >>)}
KeySlotValues == {Undef, Dbl(2), RefGlobal("G")}
ValueSlotValues == {Undef, Dbl(2), RefGlobal("P")}
InitComplex ==
  /\ \E s \in ComplexRhs, k \in KeySlotValues, v \in ValueSlotValues :
        /\ root = [fn |-> 43, args |-> << >>, nargout |-> 0, dbg |-> FALSE, hostfail |-> FALSE]
        /\ stack = << IntE(0), s, k, v >>
        /\ globals = [g \in GlobalNames |-> IF (g = "G" /\ is_ref(k)) \/ (g = "P" /\ is_ref(v))
                                          THEN Dbl(2) ELSE Undef]
        /\ regs = [code |-> 43, data |-> 43, name_data |-> 43, unwind_data |-> 43]
        /\ frames = << HostFrame, [fn |-> 43, closure |-> FALSE, caught |-> FALSE, nargin |-> 0,
                                   ignored |-> Undef] >>
  /\ code = [u \in Units |-> Bytecode[u].code]
  /\ bsp = 0
  /\ ip = 4
  /\ ob = FALSE
  /\ mode = "run"
  /\ errdat = NoError
  /\ m_unwinding_interrupt = FALSE
  /\ m_could_not_push_frame = FALSE
  /\ m_dbg_proper_return = FALSE
  /\ retval = << >>
  /\ calls = << >>
  /\ seen = {}
  /\ last = "init"
  /\ HostInRoot

(* ------------------------------- ++A ------------------------------------ *)
\* octave_value::non_const_unary_op (op_incr) of a numeric value.
op_incr(v) == IF v.t = "mat" THEN [v EXCEPT !.l = [i \in 1..Len(v.l) |-> [v.l[i] EXCEPT !.n = @ + 1]]]
              ELSE [v EXCEPT !.n = @ + 1]
\* incr_id_prefix_dbl after its test of the type.
IncrDbl(slot) ==
  LET ov == op_incr(At(stack, bsp + SlotWord(slot)))
  IN  DISPATCH(SetAt(stack, bsp + SlotWord(slot), ov) \o << ov >>, HandlerIp) /\ globals' = globals
\* incr_id_prefix after its test of the type: the host increments the
\* variable, the one of the wrapper when the slot holds one.
IncrGeneric(slot) ==
  LET ov == At(stack, bsp + SlotWord(slot))
      var == IF is_ref(ov) THEN deref(ov, globals) ELSE ov
  IN  IF var.t \notin {"dbl", "mat"}
      THEN Raise(stack, Payload("EXECUTION_EXC"), "EXECUTION_EXC", HandlerIp) /\ globals' = globals
      ELSE IF is_ref(ov)
      THEN DISPATCH(stack \o << op_incr(var) >>, HandlerIp) /\ globals' = set_value(ov, globals, op_incr(var))
      ELSE DISPATCH(SetAt(stack, bsp + SlotWord(slot), op_incr(var)) \o << op_incr(var) >>, HandlerIp)
           /\ globals' = globals

incr_id_prefix_dbl ==
  /\ Entered(INCR_ID_PREFIX_DBL)
  /\ LET slot == WideArg0
         ov == At(stack, bsp + SlotWord(slot))
     IN  IF type_id(ov) # m_scalar_typeid
         THEN code' = RewriteAt(HandlerIp, slot, INCR_ID_PREFIX) /\ IncrGeneric(slot)
         ELSE code' = code /\ IncrDbl(slot)
  /\ last' = "incr_id_prefix_dbl"
  /\ UNCHANGED << bsp, regs, frames, root, errdat, m_unwinding_interrupt, m_could_not_push_frame,
                  m_dbg_proper_return, retval, calls, seen >>
  /\ SameHost

incr_id_prefix ==
  /\ Entered(INCR_ID_PREFIX)
  /\ LET slot == WideArg0
         ov == At(stack, bsp + SlotWord(slot))
     IN  IF type_id(ov) = m_scalar_typeid
         THEN code' = RewriteAt(HandlerIp, slot, INCR_ID_PREFIX_DBL) /\ IncrDbl(slot)
         ELSE code' = code /\ IncrGeneric(slot)
  /\ last' = "incr_id_prefix"
  /\ UNCHANGED << bsp, regs, frames, root, errdat, m_unwinding_interrupt, m_could_not_push_frame,
                  m_dbg_proper_return, retval, calls, seen >>
  /\ SameHost

\* The units of one self-rewriting instruction, without and with the WIDE
\* prefix, and what each instruction does.
WideUnits == {44, 45, 46, 47, 49}
RewritingUnits == 28..31 \cup {48} \cup WideUnits
InstructionOf(f) ==
  CASE f \in {28, 44} -> "sub1"
    [] f \in {29, 45} -> "sub2"
    [] f \in {30, 46} -> "idx1"
    [] f \in {31, 47} -> "idx2"
    [] OTHER -> "incr"
\* The opcode bytes earlier executions can have left in the instruction.
RewrittenForms(f) ==
  CASE InstructionOf(f) = "sub1" -> {SUBASSIGN_ID, SUBASSIGN_ID_MAT_1D}
    [] InstructionOf(f) = "sub2" -> {SUBASSIGN_ID, SUBASSIGN_ID_MAT_2D}
    [] InstructionOf(f) = "idx1" -> {INDEX_ID_NARGOUT1, INDEX_ID1_MAT_1D}
    [] InstructionOf(f) = "idx2" -> {INDEX_ID_NARGOUT1, INDEX_ID1_MAT_2D}
    [] OTHER -> {INCR_ID_PREFIX, INCR_ID_PREFIX_DBL}
IncrValues == {Undef, Dbl(5), Mat(<< Dbl(1), Dbl(2) >>), Bool(TRUE), RefGlobal("G")}
\* A unit about to run its instruction, the operands on the stack.
InitWide ==
  /\ \E f \in RewritingUnits, A \in MatValues \cup IncrValues, i \in SubscriptValues,
        j \in SubscriptValues, rhs \in AssignedValues :
     \E op \in RewrittenForms(f) :
        /\ (InstructionOf(f) \in {"sub1", "idx1", "incr"} => j = i)
        /\ (InstructionOf(f) \in {"idx1", "idx2", "incr"} => rhs = Dbl(9))
        /\ (InstructionOf(f) \in {"idx1", "idx2"} => A \in MatValues)
        /\ (InstructionOf(f) \in {"sub1", "sub2"} => A \in MatValues \cup {Undef})
        /\ (InstructionOf(f) = "incr" => A \in IncrValues /\ i = Dbl(1))
        /\ root = [fn |-> f, args |-> << >>, nargout |-> 0, dbg |-> FALSE, hostfail |-> FALSE]
        /\ stack = << IntE(0), A >>
                   \o (IF InstructionOf(f) \in {"idx1", "idx2"} THEN << A >> ELSE << >>)
                   \o (CASE InstructionOf(f) \in {"sub2", "idx2"} -> << i, j >>
                         [] InstructionOf(f) = "incr" -> << >>
                         [] OTHER -> << i >>)
                   \o (IF InstructionOf(f) \in {"sub1", "sub2"} THEN << rhs >> ELSE << >>)
        /\ regs = [code |-> f, data |-> f, name_data |-> f, unwind_data |-> f]
        /\ frames = << HostFrame, [fn |-> f, closure |-> FALSE, caught |-> FALSE, nargin |-> 0,
                                   ignored |-> Undef] >>
        /\ code = [u \in Units |-> IF u = f
                                   THEN [Bytecode[u].code EXCEPT ![IF f \in WideUnits THEN 6 ELSE 5] = op]
                                   ELSE Bytecode[u].code]
        /\ globals = [g \in GlobalNames |-> IF g = "G" /\ is_ref(A) THEN Dbl(5) ELSE Undef]
  /\ bsp = 0
  /\ ip = 4
  /\ ob = FALSE
  /\ mode = "run"
  /\ errdat = NoError
  /\ m_unwinding_interrupt = FALSE
  /\ m_could_not_push_frame = FALSE
  /\ m_dbg_proper_return = FALSE
  /\ retval = << >>
  /\ calls = << >>
  /\ seen = {}
  /\ last = "init"
  /\ HostInRoot

(* --------------------------- shared matrix data ------------------------- *)
\* The matrix v with its data in the rep r.
InRep(v, r) == [v EXCEPT !.n = r]
SharedMats == {InRep(Mat(<< Dbl(1), Dbl(2), Dbl(3) >>), 1),
               InRep(Shaped("mat", << 2, 2 >>, << Dbl(1), Dbl(2), Dbl(3), Dbl(4) >>), 1)}
\* A(i) = v or A(i, j) = v is about to run.  B, the iterated value of a loop
\* around the statement (with its two counters on the stack) and the global
\* G each hold the data of A, equal data of their own, or something else.
InitShare ==
  /\ \E f \in {50, 51}, A \in SharedMats, i \in SubscriptValues, j \in SubscriptValues,
        rhs \in {Dbl(9), Bool(TRUE)}, inloop \in BOOLEAN :
     \E op \in OpcodeForms(f - 22), B \in {Undef, Dbl(5), A, InRep(A, 2)}, G \in {Undef, A} :
        /\ (f = 50 => j = i)
        /\ root = [fn |-> f, args |-> << >>, nargout |-> 0, dbg |-> FALSE, hostfail |-> FALSE]
        /\ stack = << IntE(0), A, B >>
                   \o (IF inloop THEN << A, IntE(numel(A)), IntE(0) >> ELSE << >>)
                   \o (IF f = 51 THEN << i, j >> ELSE << i >>)
                   \o << rhs >>
        /\ regs = [code |-> f, data |-> f, name_data |-> f, unwind_data |-> f]
        /\ frames = << HostFrame, [fn |-> f, closure |-> FALSE, caught |-> FALSE, nargin |-> 0,
                                   ignored |-> Undef] >>
        /\ code = [u \in Units |-> IF u = f THEN [Bytecode[u].code EXCEPT ![5] = op]
                                   ELSE Bytecode[u].code]
        /\ globals = [g \in GlobalNames |-> IF g = "G" THEN G ELSE Undef]
  /\ bsp = 0
  /\ ip = 4
  /\ ob = FALSE
  /\ mode = "run"
  /\ errdat = NoError
  /\ m_unwinding_interrupt = FALSE
  /\ m_could_not_push_frame = FALSE
  /\ m_dbg_proper_return = FALSE
  /\ retval = << >>
  /\ calls = << >>
  /\ seen = {}
  /\ last = "init"
  /\ HostInRoot

(* ---------------------- the guard words of the stack ------------------- *)
\* What a step on the words of m_stack0 leaves alone.
SameButWords == UNCHANGED << bsp, ip, ob, regs, code, frames, root, errdat, m_unwinding_interrupt,
                             m_could_not_push_frame, m_dbg_proper_return, retval, globals, calls,
                             seen, m_profiler_enabled, m_vm_profiler, lvalue_list, m_frame_ptr_cache,
                             m_original_lvalue_list, m_output_ignore_data, lvalue_lists >>
\* PUSH_OV: new (sp++) octave_value (ov), with sp inside of
\* [m_stack, m_stack + stack_size).
push_ov ==
  /\ mode = "run"
  /\ sp < StackSize
  /\ stack' = Append(stack, Undef)
  /\ m_stack0' = [m_stack0 EXCEPT ![m_stack + sp] = "word"]
  /\ mode' = mode
  /\ last' = "push_ov"
  /\ SameButWords
\* STACK_DESTROY (1): (*--sp).ov.~octave_value ()
stack_destroy ==
  /\ mode = "run"
  /\ sp > bsp
  /\ stack' = STACK_DESTROY(stack, 1)
  /\ UNCHANGED << m_stack0, mode >>
  /\ last' = "stack_destroy"
  /\ SameButWords
\* The pad test of CHECK_STACK: every m_stack0[i] and m_stack0[i + stack_size]
\* with i < stack_pad holds stack_magic_int.
PadsIntact(words) ==
  \A i \in 0..(StackPad - 1) : words[i] = "magic" /\ words[i + StackSize] = "magic"
\* CHECK_STACK (0) where the root frame returns: a failed CHECK is an error ().
check_stack ==
  /\ mode = "run"
  /\ mode' = IF PadsIntact(m_stack0) /\ sp <= StackSize /\ sp >= 0 THEN "returned" ELSE "abort"
  /\ UNCHANGED << stack, m_stack0 >>
  /\ last' = "check_stack"
  /\ SameButWords
\* The machine as vm::vm leaves it, with no word of the stack in use.
InitPads ==
  /\ root = [fn |-> 1, args |-> << >>, nargout |-> 0, dbg |-> FALSE, hostfail |-> FALSE]
  /\ stack = << >>
  /\ regs = [code |-> 1, data |-> 1, name_data |-> 1, unwind_data |-> 1]
  /\ frames = << HostFrame >>
  /\ code = [u \in Units |-> Bytecode[u].code]
  /\ globals = [g \in GlobalNames |-> Undef]
  /\ bsp = 0
  /\ ip = 0
  /\ ob = FALSE
  /\ mode = "run"
  /\ errdat = NoError
  /\ m_unwinding_interrupt = FALSE
  /\ m_could_not_push_frame = FALSE
  /\ m_dbg_proper_return = FALSE
  /\ retval = << >>
  /\ calls = << >>
  /\ seen = {}
  /\ last = "init"
  /\ HostInRoot

(* ----------------------------- switch ---------------------------------- *)
\* octave_value::is_equal of two defined values.
is_equal(a, b) == is_defined(a) /\ is_defined(b) /\ a.d = b.d /\ a.n = b.n /\ a.l = b.l
\* cell (i, j): the Cell keeps its elements column by column.
cell_elem(c, i, j) == c.l[j * rows(c) + i + 1]
\* The inner loop of switch_cmp over the columns j, j + 1, ... of the row i:
\* do_it is assigned at every element, and the loop is left when it is true.
RECURSIVE MatchColumns(_, _, _, _, _)
MatchColumns(ov_switch, c, i, j, do_it) ==
  IF j >= cols(c) THEN do_it
  ELSE IF is_equal(ov_switch, cell_elem(c, i, j)) THEN TRUE
  ELSE MatchColumns(ov_switch, c, i, j + 1, FALSE)
\* The outer loop over the rows i, i + 1, ...: the break of the inner loop
\* does not leave it.
RECURSIVE MatchRows(_, _, _, _)
MatchRows(ov_switch, c, i, do_it) ==
  IF i >= rows(c) THEN do_it
  ELSE MatchRows(ov_switch, c, i + 1, MatchColumns(ov_switch, c, i, 0, do_it))
\* do_it of switch_cmp
CaseMatches(ov_switch, ov_label) ==
  IF ~is_defined(ov_label) THEN FALSE
  ELSE IF ~iscell(ov_label) THEN is_equal(ov_switch, ov_label)
  ELSE MatchRows(ov_switch, ov_label, 0, FALSE)

switch_cmp ==
  /\ Running(JMP_IFNCASEMATCH)
  /\ LET ov_label == TOP_OV
         ov_switch == At(stack, sp - 2)
         target == USHORT_FROM_UCHARS(arg0, Byte(ip + 2))
         do_it == CaseMatches(ov_switch, ov_label)
     IN  DISPATCH(STACK_DESTROY(stack, 2), IF ~do_it THEN target ELSE ip + 3)
  /\ last' = "switch_cmp"
  /\ Same

\* The case labels: no value, scalars, and cells of up to two rows and two
\* columns.
LabelElems == {Dbl(1), Dbl(2), Dbl(3)}
CaseLabels ==
  {Undef, Dbl(1), Dbl(2), Shaped("cell", << 0, 0 >>, << >>)}
    \cup {Shaped("cell", d, l) : d \in {<< 1, 1 >>}, l \in [1..1 -> LabelElems]}
    \cup {Shaped("cell", d, l) : d \in {<< 1, 2 >>, << 2, 1 >>}, l \in [1..2 -> LabelElems]}
    \cup {Shaped("cell", d, l) : d \in {<< 2, 2 >>}, l \in [1..4 -> LabelElems]}
SwitchValues == {Dbl(1), Dbl(2)}
\* sw about to compare its switch value with its case label.
InitSwitch ==
  /\ \E x \in SwitchValues, L \in CaseLabels :
        /\ root = [fn |-> 53, args |-> << >>, nargout |-> 0, dbg |-> FALSE, hostfail |-> FALSE]
        /\ stack = << IntE(0), x, L >>
        /\ regs = [code |-> 53, data |-> 53, name_data |-> 53, unwind_data |-> 53]
        /\ frames = << HostFrame, [fn |-> 53, closure |-> FALSE, caught |-> FALSE, nargin |-> 0,
                                   ignored |-> Undef] >>
  /\ code = [u \in Units |-> Bytecode[u].code]
  /\ globals = [g \in GlobalNames |-> Undef]
  /\ bsp = 0
  /\ ip = 4
  /\ ob = FALSE
  /\ mode = "run"
  /\ errdat = NoError
  /\ m_unwinding_interrupt = FALSE
  /\ m_could_not_push_frame = FALSE
  /\ m_dbg_proper_return = FALSE
  /\ retval = << >>
  /\ calls = << >>
  /\ seen = {}
  /\ last = "init"
  /\ HostInRoot

(* --------------------------- the frame cache ---------------------------- *)
\* Calls of an anonymous function that calls a function, and of a function
\* by its handle, with what the host tells of the frames that return and
\* with the frames the cache holds already.
CacheInputs ==
  {[fn |-> 7, args |-> << FHandle(h), c >>, nargout |-> r, dbg |-> FALSE, hostfail |-> FALSE,
    fp |-> f, cached |-> n] :
     h \in {1, 4, 5}, c \in {Dbl(1), CellV(<< >>)}, r \in {0, 1}, f \in FrameFacts,
     n \in 0..FrameCacheSize}
InitCache == Start(CacheInputs)
Next ==
  \/ call
  \/ RootSetup
  \/ pop
  \/ load_cst
  \/ push_slot_indexed
  \/ push_nil
  \/ jmp
  \/ jmp_ifdef
  \/ pop_n_ints
  \/ handle_signals
  \/ assign
  \/ force_assign
  \/ jmp_if
  \/ jmp_if_bool
  \/ jmp_ifn
  \/ jmp_ifn_bool
  \/ usub
  \/ usub_dbl
  \/ op_not
  \/ not_dbl
  \/ not_bool
  \/ init_global
  \/ for_setup
  \/ for_cond
  \/ throw_iferrorobj
  \/ index_idnx
  \/ index_idn
  \/ index_id1
  \/ index_id_nargout0
  \/ ret
  \/ ret_anon
  \/ debug_check
  \/ unwind
  \/ unwind_frame
  \/ rethrow
  \/ call_return
  \/ call_catch

Spec == Init /\ [][Next]_vars

\* The scheduling of the interpreter: a thread that always takes its next
\* step.
FairSpec == Spec /\ WF_vars(Next)

\* The assignment units run from the instruction that stores.
NextAssign ==
  \/ assign
  \/ force_assign
  \/ assign_n
  \/ load_cst
  \/ ret
  \/ unwind
  \/ unwind_frame
  \/ rethrow
  \/ call_return
  \/ call_catch

SpecAssign == InitAssign /\ [][NextAssign]_vars

\* The indexing units run from the instruction that indexes.
NextMatrix ==
  \/ subassign_id
  \/ subassign_id_mat_1d
  \/ subassign_id_mat_2d
  \/ index_id1
  \/ index_id1_mat_1d
  \/ index_id1_mat_2d
  \/ pop
  \/ ret
  \/ unwind
  \/ unwind_frame
  \/ rethrow

SpecMatrix == InitMatrix /\ [][NextMatrix]_vars

\* The calls of Spec and of SpecStack with the profiler enabled.
SpecProfile == InitProfile /\ [][Next]_vars

\* The cell literal units.
NextCell ==
  \/ push_cell
  \/ push_slot_indexed
  \/ append_cell
  \/ assign
  \/ ret
  \/ unwind
  \/ unwind_frame
  \/ rethrow

SpecCell == InitCell /\ [][NextCell]_vars

\* The calls with ignored outputs.
NextIgnore ==
  \/ call
  \/ RootSetup
  \/ set_ignore_outputs
  \/ clear_ignore_outputs
  \/ anon_maybe_set_ignore_output
  \/ push_slot_indexed
  \/ push_nil
  \/ index_idn
  \/ index_idnx
  \/ index_id_nargout0
  \/ assign
  \/ assign_n
  \/ jmp
  \/ jmp_ifdef
  \/ pop
  \/ throw_iferrorobj
  \/ ret
  \/ ret_anon
  \/ unwind
  \/ unwind_frame
  \/ rethrow
  \/ call_return
  \/ call_catch

SpecIgnore == InitIgnore /\ [][NextIgnore]_vars

\* The loop units.
NextLoop ==
  \/ call
  \/ RootSetup
  \/ init_global
  \/ push_slot_indexed
  \/ for_setup
  \/ for_cond
  \/ handle_signals
  \/ index_id_nargout0
  \/ usub
  \/ usub_dbl
  \/ jmp_if
  \/ pop
  \/ assign
  \/ jmp
  \/ pop_n_ints
  \/ ret
  \/ unwind
  \/ unwind_frame
  \/ rethrow
  \/ call_return
  \/ call_catch

SpecLoop == InitLoop /\ [][NextLoop]_vars

NextComplex ==
  \/ push_slot_indexed \/ for_complex_setup \/ for_complex_cond \/ jmp \/ pop_n_ints \/ pop
  \/ ret \/ unwind \/ unwind_frame \/ call_return

SpecComplex == InitComplex /\ [][NextComplex]_vars

\* One execution of a self-rewriting instruction.
NextWide ==
  \/ subassign_id \/ subassign_id_mat_1d \/ subassign_id_mat_2d
  \/ index_id1 \/ index_id1_mat_1d \/ index_id1_mat_2d
  \/ incr_id_prefix \/ incr_id_prefix_dbl

SpecWide == InitWide /\ [][NextWide]_vars

\* One indexed assignment to a matrix whose data other values hold.
NextShare == subassign_id \/ subassign_id_mat_1d \/ subassign_id_mat_2d

SpecShare == InitShare /\ [][NextShare]_vars

\* Words of the usable region are written and released, and the stack is
\* checked as where the root frame returns.
NextPads == push_ov \/ stack_destroy \/ check_stack

SpecPads == InitPads /\ [][NextPads]_vars

\* One switch statement with one case.
NextSwitch == push_slot_indexed \/ switch_cmp \/ pop \/ ret

SpecSwitch == InitSwitch /\ [][NextSwitch]_vars

\* The calls that fill the frame cache.
NextCache ==
  \/ call
  \/ RootSetup
  \/ load_cst
  \/ push_slot_indexed
  \/ jmp_ifdef
  \/ assign
  \/ index_idnx
  \/ ret
  \/ ret_anon
  \/ unwind
  \/ unwind_frame
  \/ call_return

SpecCache == InitCache /\ [][NextCache]_vars

\* The recursive units.
NextStack ==
  \/ call
  \/ RootSetup
  \/ push_slot_indexed
  \/ jmp_ifn
  \/ jmp_ifn_bool
  \/ index_id_nargout0
  \/ index_idn
  \/ ret
  \/ debug_check
  \/ unwind
  \/ unwind_frame
  \/ rethrow
  \/ call_return
  \/ call_catch

SpecStack == InitStack /\ [][NextStack]_vars

\* The calls of the functions with varargin.
NextVarargin ==
  \/ index_idn
  \/ pop
  \/ ret
  \/ unwind
  \/ unwind_frame
  \/ rethrow
  \/ call_return
  \/ call_catch

SpecVarargin == InitVarargin /\ [][NextVarargin]_vars

TypeOK == mode \in {"call", "setup", "run", "unwind", "returned", "abort", "unwinding", "rethrow", "thrown", "done", "rethrown", "escaped", "ub", "hang"}
NoAbort == mode \notin {"abort", "ub", "escaped"}

(* ============================== properties ============================= *)
\* The open bytecode call the running frame belongs to, as the caller saw it.
ThisCall == calls[Len(calls)]

\* C1 (frame balance): every step of RET or RET_ANON that returns from a
\* bytecode call to its bytecode caller leaves the caller's stack top at
\* caller_top + max (1, nargout the caller asked for), caller_top being the
\* position the called object had; a caller that asked for no value still
\* gets exactly one.
C1_FrameBalance ==
  [][(last' \in {"ret", "ret_anon"} /\ mode' = "run" /\ Len(frames') < Len(frames))
       => /\ Len(stack') = ThisCall.top + Max(1, ThisCall.nargout)
          /\ bsp' <= ThisCall.top
          /\ \A i \in bsp' + 1..Len(stack') : stack'[i] # Dead]_vars

\* A bytecode callee has returned to a bytecode caller that asked for no
\* value, and the caller's stack holds its locals and the one value.
C1_Witness ==
  /\ last \in {"ret", "ret_anon"}
  /\ mode = "run"
  /\ Len(frames) = 2
  /\ root.fn = 7
  /\ root.nargout = 0
  /\ sp = bsp + N_LOCALS(regs.code) + 1

\* C5 (handlers eligible for a tag): when the unwinder resumes execution in
\* a frame, the error is not DEBUG_QUIT, and for INTERRUPT_EXC the handler is
\* the cleanup of an unwind_protect region, never the catch of a try region.
C5_EligibleHandlers ==
  (last = "unwind_frame" /\ mode = "run")
    => /\ errdat.et # "DEBUG_QUIT"
       /\ errdat.et = "INTERRUPT_EXC"
            => /\ \E i \in 1..Len(UnwindEntries) :
                    /\ UnwindEntries[i].m_unwind_entry_type = "UNWIND_PROTECT"
                    /\ UnwindEntries[i].m_ip_target = ip
               /\ \A i \in 1..Len(UnwindEntries) :
                    UnwindEntries[i].m_unwind_entry_type = "TRY_CATCH"
                      => UnwindEntries[i].m_ip_target # ip

\* An interrupt raised in a callee inside try inside unwind_protect has been
\* taken to the cleanup block of the caller.
C5_Witness ==
  /\ last = "unwind_frame"
  /\ mode = "run"
  /\ errdat.et = "INTERRUPT_EXC"
  /\ errdat.depth > Len(frames)
  /\ regs.code = 9

\* The machine never runs a destructor on a raw word and never leaves
\* vm::call without its dynamic frame popped.
NoWildStep == mode \notin {"ub", "escaped"}

\* The handlers that rewrite their own opcode, and those that jump.
RewritingHandlers == {"jmp_if", "jmp_if_bool", "jmp_ifn", "jmp_ifn_bool",
                      "usub", "usub_dbl", "op_not", "not_dbl", "not_bool"}
JumpOps == {JMP_IF, JMP_IF_BOOL, JMP_IFN, JMP_IFN_BOOL}

C9_RefWrapperTransparency ==
  /\ [][(/\ mode = "run"
         /\ last' = "assign"
         /\ mode' = "run"
         /\ is_ref(At(stack, bsp + arg0))
         /\ ~is_cs_list(TOP_OV))
        => /\ At(stack', bsp + arg0) = At(stack, bsp + arg0)
           /\ SlotValue(stack', bsp, arg0, globals') = TOP_OV
           /\ \A p \in 1..Len(stack') :
                (is_ref(stack'[p]) /\ stack'[p].l = At(stack, bsp + arg0).l)
                  => deref(stack'[p], globals') = TOP_OV]_vars
  /\ [](/\ mode = "run"
        /\ regs.code = 15
        /\ last = "push_slot_indexed"
        /\ ip = 20
        /\ root.fn = 14
        => TOP_OV = root.args[1])

\* gget, called by gset after G = v, has read G through its own wrapper, and
\* the slot of gset below still holds the wrapper.
C9_Witness ==
  /\ mode = "run"
  /\ regs.code = 15
  /\ last = "push_slot_indexed"
  /\ ip = 20
  /\ root.fn = 14
  /\ iscell(root.args[1])
  /\ TOP_OV = root.args[1]
  /\ is_global_ref(At(stack, 3))
  /\ is_global_ref(At(stack, bsp + 2))

\* The operand depth of the statement that starts at the instruction
\* pointer: the words of the for loops and cleanup blocks open around it.
AtStatement == \E i \in 1..Len(Bytecode[regs.code].stmts) : Bytecode[regs.code].stmts[i][1] = ip
StatementDepth ==
  LET i == CHOOSE i \in 1..Len(Bytecode[regs.code].stmts) : Bytecode[regs.code].stmts[i][1] = ip
  IN  Bytecode[regs.code].stmts[i][2]
\* The running frame has caught no error.
NothingCaught == ~frames[Len(frames)].caught

ProtectedAt(f, o) ==
  {i \in 1..Len(Bytecode[f].unwind) :
     /\ Bytecode[f].unwind[i].m_unwind_entry_type = "UNWIND_PROTECT"
     /\ Bytecode[f].unwind[i].m_ip_start <= o
     /\ o < Bytecode[f].unwind[i].m_ip_end}
\* The regions of unit f with a handler that cover the offset o.
HandledAt(f, o) ==
  {i \in 1..Len(Bytecode[f].unwind) :
     /\ Bytecode[f].unwind[i].m_unwind_entry_type \in {"UNWIND_PROTECT", "TRY_CATCH"}
     /\ Bytecode[f].unwind[i].m_ip_start <= o
     /\ o < Bytecode[f].unwind[i].m_ip_end}

\* C6 as stated (cleanup always runs): whatever the tag, the unwinder does
\* not tear down the frame in which the error was raised when it was raised
\* inside an unwind_protect region.
C6_CleanupForEveryTag ==
  (last = "unwind_frame" /\ Len(frames) < errdat.depth)
    => ProtectedAt(errdat.fn, errdat.at) = {}

\* C6 (cleanup runs, amended): for every tag but DEBUG_QUIT, when the
\* unwinder reaches a frame whose instruction pointer lies inside an
\* unwind_protect region, it does not tear the frame down: execution resumes
\* in that frame at the handler of a region around the instruction pointer,
\* which for INTERRUPT_EXC is the cleanup of an unwind_protect region.  For
\* DEBUG_QUIT the frame is torn down and no cleanup runs.
C6_CleanupUnlessDebugQuit ==
  [][(mode = "unwinding" /\ last' = "unwind_frame" /\ ProtectedAt(regs.code, ip) # {})
       => IF errdat.et # "DEBUG_QUIT"
          THEN /\ mode' = "run"
               /\ Len(frames') = Len(frames)
               /\ bsp' = bsp
               /\ \E i \in HandledAt(regs.code, ip) :
                    /\ UnwindEntries[i].m_ip_target = ip'
                    /\ errdat.et = "INTERRUPT_EXC"
                         => UnwindEntries[i].m_unwind_entry_type = "UNWIND_PROTECT"
          ELSE mode' # "run"]_vars

\* An interrupt raised by guard itself inside its unwind_protect block has
\* been taken to the cleanup block of guard, called by outer.
C6_Witness ==
  /\ last = "unwind_frame"
  /\ mode = "run"
  /\ errdat.et = "INTERRUPT_EXC"
  /\ errdat.fn = 9
  /\ errdat.depth = Len(frames)
  /\ root.fn = 10
  /\ ProtectedAt(9, errdat.at) # {}
  /\ ip = 27

\* C7 as stated (stack depth in a handler), with the words of the loops open
\* around the region allowed for: when a handler begins, under the error
\* value pushed for it top - base == n_locals plus the operand depth of
\* its region.
C7_HandlerStackDepth ==
  (last = "unwind_frame" /\ mode = "run")
    => \E i \in 1..Len(UnwindEntries) :
         /\ UnwindEntries[i].m_ip_target = ip
         /\ sp - 1 - bsp = N_LOCALS(regs.code) + UnwindEntries[i].m_stack_depth

\* The handler of vtry has begun in a frame RET had already taken the
\* locals from.
C7_TornFrame ==
  /\ last = "unwind_frame"
  /\ mode = "run"
  /\ regs.code = 13
  /\ sp - 1 - bsp < N_LOCALS(regs.code)

\* C3 as stated (no cs-list in a slot): between two instructions no named
\* slot of the running frame holds a cs-list, and no variable behind a
\* wrapper does.
C3_NoCsListInSlots ==
  mode = "run"
    => /\ \A s \in 1..N_LOCALS(regs.code) - 1 : ~is_cs_list(At(stack, bsp + s))
       /\ \A g \in GlobalNames : ~is_cs_list(globals[g])

\* FORCE_ASSIGN has stored the cs-list it found on the stack.
C3_ForceAssignStoresCsList ==
  /\ mode = "run"
  /\ last = "force_assign"
  /\ is_cs_list(At(stack, bsp + 1))
  /\ Len(At(stack, bsp + 1).l) = 2

\* C8 as stated (the stack stays in its region): base <= top <= root + N
\* after every handler.
C8_StackWithinRegion == bsp <= sp /\ sp <= StackSize

\* A call that passed the stack check has built a frame that ends past the
\* end of the stack.
C8_FramePastTheEnd ==
  /\ last \in {"index_id_nargout0", "index_idn"}
  /\ mode = "run"
  /\ sp > StackSize

\* The unwinder has work to do for an interrupt.
InterruptRaised == mode = "unwind" /\ TOP_OV = ErrTag("INTERRUPT_EXC")
\* vm::call has thrown on to the host with the operand stack empty and the
\* dynamic frames as they were before the call.
BackAtHost == mode = "rethrown" /\ stack = << >> /\ frames = << HostFrame >>

\* C4 (interrupt safety): once an interrupt is raised, at any call depth and
\* in any nesting of regions, the unwinder comes to an end with the operand
\* stack empty and the host's frames as before the call, and vm::call
\* throws interrupt_exception to the host.
C4_InterruptSafety ==
  InterruptRaised
    ~> (BackAtHost /\ retval = << Str("interrupt_exception") >>)

\* uwp was interrupted in its first unwind_protect block; the cleanup block
\* raised an error, the catch block of the enclosing try took it, and the
\* call has returned to the host as if nothing had happened.
C4_InterruptSwallowed ==
  /\ mode = "done"
  /\ root.fn = 36
  /\ m_unwinding_interrupt
  /\ errdat.et = "EXECUTION_EXC"
  /\ retval = << >>
  /\ frames = << HostFrame >>

\* The stack check has refused a call.
StackSpaceErrorRaised ==
  /\ mode = "unwind"
  /\ sp >= 2
  /\ At(stack, sp - 2) = Pee("VM is running out of stack space")

(* ------------------------ values handed back by RET --------------------- *)
\* RET is about to hand the values of the running frame to a bytecode caller.
RetToCaller == last' = "ret" /\ mode' = "run" /\ Len(frames') < Len(frames)
\* The return slots of the running frame, first return first.
ReturnSlots == [j \in 1..Abs(N_RETURNS(regs.code)) - 1 |-> At(stack, bsp + j)]
\* The fixed returns of the running frame and the elements of its varargout.
FixedReturns ==
  IF N_RETURNS(regs.code) < 0 THEN SubSeq(ReturnSlots, 1, Len(ReturnSlots) - 1) ELSE ReturnSlots
VarargoutElements ==
  IF N_RETURNS(regs.code) < 0 /\ iscell(ReturnSlots[Len(ReturnSlots)])
  THEN ReturnSlots[Len(ReturnSlots)].l ELSE << >>
\* The values the step has put on the caller's stack, deepest first.
Handed == SubSeq(stack', ThisCall.top + 1, Len(stack'))
\* The values RET moves to a caller that expects r of them.
Moved(r) ==
  SubSeq(FixedReturns \o VarargoutElements, 1, Min(r, Len(FixedReturns) + Len(VarargoutElements)))
\* s lies in t as one block with nothing but nil around it.
IsBlockIn(s, t) ==
  \E k \in 0..Len(t) - Len(s) :
    /\ SubSeq(t, k + 1, k + Len(s)) = s
    /\ \A i \in 1..Len(t) : (i <= k \/ i > k + Len(s)) => t[i] = Undef

\* C11 as stated (order of the moved values): RET returning to a bytecode
\* caller that expects r >= 1 values leaves the moved values on the caller's
\* stack with the callee's first return value deepest.
C11_FirstReturnDeepest ==
  [][(RetToCaller /\ ThisCall.nvalback >= 1) => IsBlockIn(Moved(ThisCall.nvalback), Handed)]_vars

\* C11 (order of the moved values, amended): RET returning to a bytecode
\* caller that expects r >= 1 values leaves the moved values on the caller's
\* stack as one block in reversed order, the callee's first return value on
\* top of the block and its last moved value deepest; every other word handed
\* to the caller is nil.
C11_FirstReturnOnTop ==
  [][(RetToCaller /\ ThisCall.nvalback >= 1)
       => IsBlockIn(Reverse(Moved(ThisCall.nvalback)), Handed)]_vars

\* leaf2 has returned two different values to a caller that expected two.
C11_Witness ==
  /\ last = "ret"
  /\ mode = "run"
  /\ root.args = << FHandle(4), Dbl(1) >>
  /\ root.nargout = 2
  /\ regs.code = 4
  /\ stack[sp] = Dbl(1)
  /\ stack[sp - 1] = Dbl(7)

\* The values handed to the caller in the order of the return list: the
\* caller takes its first value from the top of the stack.
Received == Reverse(Handed)
\* The return list of a varargout callee for a caller that requested r
\* values: the fixed returns, then the first min (m, max (0, max (1, r) - k))
\* elements of the cell, cut at max (1, r) and filled up with nil.
VarargoutList(r) ==
  LET k == Len(FixedReturns)
      m == Len(VarargoutElements)
      l == FixedReturns \o SubSeq(VarargoutElements, 1, Min(m, Max(0, Max(1, r) - k)))
      n == Min(Len(l), Max(1, r))
  IN  SubSeq(l, 1, n) \o Nils(Max(1, r) - n)

\* C12 (returns of a varargout callee): RET returning from a varargout callee
\* with k fixed returns and a cell of m elements to a bytecode caller that
\* requested r values hands over max (1, r) values: the fixed returns, then
\* the first min (m, max (0, max (1, r) - k)) cell elements in cell order,
\* then nil for the values that are missing.
C12_VarargoutReturns ==
  [][(RetToCaller /\ N_RETURNS(regs.code) < 0) => Received = VarargoutList(ThisCall.nvalback)]_vars

\* vout has returned a cell of one element to a caller that requested ten
\* values: the element lies deepest, and the first value the caller takes is
\* nil.
C12_PaddingOnTop ==
  /\ last = "ret"
  /\ mode = "run"
  /\ root.args = << FHandle(5), CellV(<< Dbl(1) >>) >>
  /\ root.nargout = 10
  /\ regs.code = 5
  /\ stack[sp] = Undef
  /\ stack[sp - 9] = Dbl(1)

(* ------------------------------- varargin ------------------------------ *)
\* A handle call has built the frame of a callee that declares varargin and
\* dispatched to its first instruction.
CalledVarargin ==
  /\ last' = "index_idn"
  /\ mode' = "run"
  /\ Len(frames') > Len(frames)
  /\ N_ARGS(regs'.code) < 0
\* The argument words of the call before it, and what they expand to.
CallWords == SubSeq(stack, sp - Byte(ip + 3) + 1, sp)
Supplied == ExpandArgs(CallWords)
\* Slot j of the frame the call has built.
NewSlot(j) == At(stack', bsp' + j)

\* C13 (varargin packaging): after a call of a callee with p named
\* parameters before varargin whose arguments expand to a1..ak, the named
\* slots hold a1..a_min(p,k) and nil for the missing ones, the varargin slot
\* holds the cell of a_(p+1)..a_k, nargin is k and the frame has n_locals
\* slots.
C13_VararginPackaging ==
  [][CalledVarargin
       => LET f == regs'.code
              p == -N_ARGS(f) - 1
              k == Len(Supplied)
              first == Abs(N_RETURNS(f))
          IN  /\ \A j \in 1..p : NewSlot(first + j - 1) = IF j <= k THEN Supplied[j] ELSE Undef
              /\ NewSlot(first + p) = CellV(SubSeq(Supplied, p + 1, k))
              /\ frames'[Len(frames')].nargin = k
              /\ Len(stack') - bsp' = N_LOCALS(f)]_vars

\* va2 (a, b, varargin) called with a cs-list of two values and a third
\* argument: the third argument lies in the slot of varargin and the frame
\* is one slot longer than n_locals.
C13_FrameTooLong ==
  /\ last = "index_idn"
  /\ mode = "run"
  /\ regs.code = 22
  /\ root.args = << FHandle(22), CsList(<< Dbl(3), Dbl(4) >>), Dbl(1) >>
  /\ At(stack, bsp + 4) = Dbl(1)
  /\ sp - bsp = N_LOCALS(22) + 1

(* ------------------------------ call arity ----------------------------- *)
\* The step enters the root routine with more arguments than it declares
\* (no varargin) or more outputs requested than it declares (no varargout).
RootArityExceeded ==
  /\ last' = "setup"
  /\ \/ N_ARGS(root.fn) >= 0 /\ Len(root.args) > N_ARGS(root.fn)
     \/ N_RETURNS(root.fn) >= 0 /\ root.nargout > N_RETURNS(root.fn) - 1
\* The step is a bytecode call that builds the frame of such a callee.
CallArityExceeded ==
  /\ last' \in {"index_idnx", "index_idn", "index_id1", "index_id_nargout0"}
  /\ Len(calls') > Len(calls)
  /\ Len(frames') > Len(frames)
  /\ LET c == calls'[Len(calls')]
         words == SubSeq(stack, c.top + 2, sp)
     IN  \/ N_ARGS(c.fn) >= 0 /\ Len(ExpandArgs(words)) > N_ARGS(c.fn)
         \/ N_RETURNS(c.fn) >= 0 /\ c.nargout > N_RETURNS(c.fn) - 1
\* The error just raised is an execution error.
ExecutionErrorRaised == mode' = "unwind" /\ stack'[Len(stack')] = ErrTag("EXECUTION_EXC")
\* The unwinder has resumed the frame whose set-up raised the error, before
\* its first instruction, at one of its own handlers.
ArityErrorCaughtByCallee ==
  /\ last = "unwind_frame"
  /\ mode = "run"
  /\ errdat.et = "EXECUTION_EXC"
  /\ errdat.at <= 4
  /\ errdat.fn = regs.code
  /\ errdat.depth = Len(frames)

\* C14 (arity errors at the call boundary): a call with too many arguments
\* for a callee without varargin, or too many outputs for a callee without
\* varargout, raises an execution error in the step that builds the callee
\* frame, before any instruction of the callee, at the root and in a nested
\* call alike, and no handler of the callee itself is resumed for it.
C14_ArityErrorNotCaughtByCallee ==
  /\ [][(RootArityExceeded \/ CallArityExceeded) => ExecutionErrorRaised]_vars
  /\ [](~ArityErrorCaughtByCallee)

\* tguard, entered from the host with two arguments, runs its own catch
\* block for the error 'called with too many inputs'.
C14_CaughtAtRoot ==
  /\ ArityErrorCaughtByCallee
  /\ root.fn = 24
  /\ Len(root.args) = 2
  /\ ip = 11

(* --------------------- what ASSIGN refuses to store --------------------- *)
\* The step runs ASSIGN / FORCE_ASSIGN on the right-hand side TOP_OV.
AssignStep == Running(ASSIGN) /\ last' = "assign"
ForceAssignStep == Running(FORCE_ASSIGN) /\ last' = "force_assign"
\* The step has raised the error tag and left the target slot and the
\* globals as they were.
RefusedWith(tag) ==
  /\ mode' = "unwind"
  /\ stack'[Len(stack')] = ErrTag(tag)
  /\ At(stack', bsp + arg0) = At(stack, bsp + arg0)
  /\ globals' = globals

\* C15 (what ASSIGN refuses): ASSIGN of an empty cs-list raises the
\* invalid-rhs error and ASSIGN of an undefined value the rhs-undefined
\* error, both with the target slot and the global behind it unchanged; an
\* ASSIGN that completes leaves a defined value that is no cs-list to read
\* from the slot; FORCE_ASSIGN of an undefined value completes.
C15_AssignRefusesUndefined ==
  [][/\ (AssignStep /\ TOP_OV = CsList(<< >>)) => RefusedWith("INVALID_N_EL_RHS_IN_ASSIGNMENT")
     /\ (AssignStep /\ ~is_defined(TOP_OV)) => RefusedWith("RHS_UNDEF_IN_ASSIGNMENT")
     /\ (AssignStep /\ mode' = "run")
          => /\ is_defined(SlotValue(stack', bsp, arg0, globals'))
             /\ ~is_cs_list(SlotValue(stack', bsp, arg0, globals'))
     /\ (ForceAssignStep /\ ~is_defined(TOP_OV)) => mode' = "run"]_vars

\* ASSIGN has refused an empty cs-list and the slot still holds its value.
C15_Witness ==
  /\ last = "assign"
  /\ mode = "unwind"
  /\ root.fn = 16
  /\ TOP_OV = ErrTag("INVALID_N_EL_RHS_IN_ASSIGNMENT")
  /\ stack[sp - 1] = CsList(<< >>)
  /\ At(stack, bsp + 1) = Dbl(2)

(* ------------------------- C16: ASSIGNN, undefined ---------------------- *)
AssignNStep == Running(ASSIGNN) /\ last' = "assign_n"
\* The i-th operand of the ASSIGNN at ip, counted from the top of the stack,
\* and the slot its value goes to when no operand is a cs-list.
AssignNOperand(i) == stack[sp - (i - 1)]
AssignNSlot(i) == USHORT_FROM_UCHARS(Byte(ip + 2 * i), Byte(ip + 2 * i + 1))
PlainOperands == \A i \in 1..arg0 : ~is_cs_list(AssignNOperand(i))
\* The outputs of the routine are its return slots 1, 2, ... in order: slot s
\* holds output s.  The ignored auto-variable lists output indices from 1.
IgnoredOutputs ==
  IF is_defined(frames[Len(frames)].ignored)
  THEN {frames[Len(frames)].ignored.l[i].n : i \in 1..Len(frames[Len(frames)].ignored.l)}
  ELSE {}
Accepted(slot) ==
  \/ Bytecode[regs.name_data].names[slot + 1] \in IgnoredNames
  \/ slot \in IgnoredOutputs

\* C16 (ASSIGNN and undefined values): an ASSIGNN whose operands are plain
\* values completes if and only if every undefined operand goes to a slot
\* whose name begins with %~ or whose output index is in the ignored
\* auto-variable; otherwise it raises the execution error "element number N
\* undefined in return list".
C16_UndefinedAcceptedIffIgnored ==
  [][(AssignNStep /\ PlainOperands /\ mode' # "ub")
       => /\ mode' = "run"
               <=> \A i \in 1..arg0 : is_defined(AssignNOperand(i)) \/ Accepted(AssignNSlot(i))
          /\ mode' # "run"
               => /\ mode' = "unwind"
                  /\ stack'[Len(stack')] = ErrTag("EXECUTION_EXC")]_vars

\* [a, b] = rhs in a routine whose caller ignores output 2: the undefined
\* value for b has been refused after a was stored.
C16_IgnoredOutputRefused ==
  /\ last = "assign_n"
  /\ mode = "unwind"
  /\ root.fn = 26
  /\ frames[Len(frames)].ignored = Mat(<< Dbl(2) >>)
  /\ TOP_OV = ErrTag("EXECUTION_EXC")
  /\ At(stack, bsp + 1) = Dbl(1)
  /\ At(stack, bsp + 2) = Undef
  /\ Len(stack) = bsp + 5

(* --------------- C17: the scalar-into-matrix specializations ----------- *)
SubMat1dStep == Running(SUBASSIGN_ID_MAT_1D) /\ last' = "subassign_id_mat_1d"
SubMat2dStep == Running(SUBASSIGN_ID_MAT_2D) /\ last' = "subassign_id_mat_2d"
\* The operands of the indexed assignment at ip: the right-hand side on top,
\* the subscripts under it, the target in the slot.
SubRhs == TOP_OV
SubTarget == At(stack, bsp + arg0)
SubSubscripts == SubSeq(stack, sp - Byte(ip + 2), sp - 1)
IsScalarDouble(v) == v.t = "dbl"
IsInteger(v) == v.l = << >>
\* The conditions of the fast path, as the description lists them.
SubTypeMismatch ==
  \/ SubTarget.t # "mat"
  \/ ~IsScalarDouble(SubRhs)
  \/ \E i \in 1..Len(SubSubscripts) : ~IsScalarDouble(SubSubscripts[i])
SubIndexNotInteger == \E i \in 1..Len(SubSubscripts) : ~IsInteger(SubSubscripts[i])
SubIndexOutOfBounds ==
  IF Len(SubSubscripts) = 1
  THEN SubSubscripts[1].n \notin 1..numel(SubTarget)
  ELSE \E i \in 1..2 : SubSubscripts[i].n \notin 1..SubTarget.d[i]
SubNotTwoD == ndims(SubTarget) # 2
\* The types fit but the values do not; for one subscript the number of
\* dimensions is no condition.
SubValueMismatch ==
  /\ ~SubTypeMismatch
  /\ \/ SubIndexNotInteger
     \/ SubIndexOutOfBounds
     \/ SubMat2dStep /\ SubNotTwoD
OpcodeByteAfter == code'[regs.code][ip + 1]

\* C17 as stated: SUBASSIGN_ID_MAT_1D and SUBASSIGN_ID_MAT_2D rewrite their
\* opcode byte to SUBASSIGN_ID on any mismatch: wrong types, an index that is
\* no integer, an index out of bounds, or a matrix that is not 2-D.
C17_RewriteOnAnyMismatch ==
  [][((SubMat1dStep \/ SubMat2dStep)
        /\ (SubTypeMismatch \/ SubIndexNotInteger \/ SubIndexOutOfBounds \/ SubNotTwoD))
       => OpcodeByteAfter = SUBASSIGN_ID]_vars

\* What the generic handler does with the operands: the host's assignment.
SubHostResult == simple_subsasgn(SubTarget, SubSubscripts, SubRhs)
\* C17 (amended): the specializations rewrite their opcode byte to
\* SUBASSIGN_ID exactly when a type does not fit (slot no numeric matrix,
\* right-hand side or a subscript no scalar double).  When the types fit but
\* a subscript is no integer or out of bounds, or for two subscripts the
\* matrix is not 2-D, they keep their opcode byte and this execution is
\* done by the generic handler: the slot gets the host's result, or the
\* host's error is raised.
C17_RewriteOnTypeMismatch ==
  [][(SubMat1dStep \/ SubMat2dStep)
       => /\ SubTypeMismatch <=> OpcodeByteAfter = SUBASSIGN_ID
          /\ ~SubTypeMismatch => OpcodeByteAfter = Opcode
          /\ SubValueMismatch
               => IF SubHostResult.ok
                  THEN mode' = "run" /\ At(stack', bsp + arg0) = SubHostResult.v
                  ELSE mode' = "unwind" /\ stack'[Len(stack')] = ErrTag(SubHostResult.tag)]_vars

\* A(5) = 9 on a 1x3 matrix through SUBASSIGN_ID_MAT_1D: the generic handler
\* has grown the matrix and the opcode is still the specialized one.
C17_Witness ==
  /\ last = "subassign_id_mat_1d"
  /\ mode = "run"
  /\ root.fn = 28
  /\ code[28][5] = SUBASSIGN_ID_MAT_1D
  /\ At(stack, bsp + 1) = Shaped("mat", << 1, 5 >>, << Dbl(1), Dbl(2), Dbl(3), Dbl(0), Dbl(9) >>)

(* ----------------- C18: INDEX_ID1_MAT_1D, fractional index -------------- *)
IdxMat1dStep == Running(INDEX_ID1_MAT_1D) /\ last' = "index_id1_mat_1d"
\* The operands of the index expression at ip: the subscript on top, the
\* indexed value under it.
IdxSubscript == TOP_OV
IdxValue == stack[sp - 1]
FractionalIndexOnMatrix ==
  /\ IdxValue.t = "mat"
  /\ IsScalarDouble(IdxSubscript)
  /\ ~IsInteger(IdxSubscript)
IdxTypeMismatch == IdxValue.t # "mat" \/ ~IsScalarDouble(IdxSubscript)

\* C18 as stated: INDEX_ID1_MAT_1D with a scalar index that is no integer on
\* a matrix rewrites its opcode byte to the generic index opcode and the
\* generic handler executes the instruction.
C18_FractionalIndexFallsBack ==
  [][(IdxMat1dStep /\ FractionalIndexOnMatrix) => OpcodeByteAfter = INDEX_ID_NARGOUT1]_vars

\* What the generic handler does with the operands: the host's index.
IdxHostResult == simple_subsref(IdxValue, << IdxSubscript >>)
\* C18 (amended): INDEX_ID1_MAT_1D with a scalar index that is no integer on
\* a matrix raises the index error itself, with its operands left on the
\* stack and its opcode byte kept.  It rewrites its byte to the generic
\* index opcode exactly when the index is no scalar double or the value no
\* full matrix, and then the generic handler executes the instruction: the
\* host's result replaces the operands, or the host's error is raised.
C18_FractionalIndexRaises ==
  [][IdxMat1dStep
       => /\ FractionalIndexOnMatrix
               => /\ mode' = "unwind"
                  /\ stack' = stack \o Payload("INDEX_ERROR") \o << ErrTag("INDEX_ERROR") >>
                  /\ OpcodeByteAfter = INDEX_ID1_MAT_1D
          /\ IdxTypeMismatch <=> OpcodeByteAfter = INDEX_ID_NARGOUT1
          /\ IdxTypeMismatch
               => IF IdxHostResult.ok
                  THEN mode' = "run" /\ stack' = STACK_DESTROY(stack, 2) \o << IdxHostResult.v >>
                  ELSE mode' = "unwind" /\ stack'[Len(stack')] = ErrTag(IdxHostResult.tag)]_vars

\* A(1.5) on a 1x3 matrix through INDEX_ID1_MAT_1D: the index error is
\* raised and the opcode is still the specialized one.
C18_Witness ==
  /\ last = "index_id1_mat_1d"
  /\ mode = "unwind"
  /\ root.fn = 30
  /\ code[30][5] = INDEX_ID1_MAT_1D
  /\ TOP_OV = ErrTag("INDEX_ERROR")
  /\ stack[sp - 2] = DblFrac(1)
  /\ stack[sp - 3] = Mat(<< Dbl(1), Dbl(2), Dbl(3) >>)

(* ---------------------- C19: where signals are checked ----------------- *)
\* octave_quit () throws interrupt_exception when the host has an interrupt
\* pending, and whether it has is not the machine's to know: a handler calls
\* octave_quit exactly if, wherever it runs, one of its outcomes is the
\* interrupt raised.
QuitCheckedBy_handle_signals == ENABLED (handle_signals /\ InterruptRaised')
QuitCheckedBy_for_cond == ENABLED (for_cond /\ InterruptRaised')
QuitCheckedBy_jmp_if == ENABLED (jmp_if /\ InterruptRaised')
QuitCheckedBy_jmp_ifn == ENABLED (jmp_ifn /\ InterruptRaised')
QuitCheckedBy_jmp_if_bool == ENABLED (jmp_if_bool /\ InterruptRaised')
QuitCheckedBy_jmp_ifn_bool == ENABLED (jmp_ifn_bool /\ InterruptRaised')

ForSetupStep == Running(FOR_SETUP) /\ last' = "for_setup"
\* A FOR_COND step that was not interrupted.
ForCondStep == Running(FOR_COND) /\ last' = "for_cond" /\ mode' = "run"
\* How often the loop body is to run for a defined iterable: once per
\* column (further dimensions counted as columns) for a matrix, cell, string
\* or struct that has rows, never for one without rows, once for a scalar.
Columns(v) == Product(Tail(v.d))
Iterations(v) ==
  IF v.t \in {"mat", "cell", "str", "struct"}
  THEN IF v.d[1] >= 1 THEN Columns(v) ELSE 0
  ELSE 1
\* The words of the loop on the operand stack at FOR_COND: the iterable, n
\* and, on top, the number of the iteration begun last.
LoopIterable == stack[sp - 2]
LoopCounter == stack[sp]

\* C20 (iteration counts): FOR_SETUP starts the loop over a defined iterable
\* with no iteration begun, and every FOR_COND either begins the next
\* iteration, while fewer than one per column have been begun, or leaves the
\* loop: the body runs zero times for a 0x3 cell and a 3x0 matrix, once for
\* a scalar and once per column for a matrix, cell, string or struct with
\* rows.
C20_IterationCounts ==
  [][/\ (ForSetupStep /\ is_defined(TOP_OV))
          => /\ Len(stack') = sp + 2
             /\ stack'[sp] = TOP_OV
             /\ stack'[sp + 2] = IntE(-1)
     /\ (ForCondStep /\ is_defined(LoopIterable))
          => /\ Len(stack') = sp
             /\ stack'[sp - 2] = LoopIterable
             /\ stack'[sp] = IntE(LoopCounter.n + 1)
             /\ IF LoopCounter.n + 1 < Iterations(LoopIterable)
                THEN ip' = ip + 4
                ELSE /\ LoopCounter.n + 1 = Iterations(LoopIterable)
                     /\ ip' = USHORT_FROM_UCHARS(Byte(ip + 2), Byte(ip + 3))]_vars

\* The loop over a 2x2 matrix has been left after two iterations.
C20_Witness ==
  /\ last = "for_cond"
  /\ mode = "run"
  /\ root.fn = 9
  /\ Opcode = POP_N_INTS
  /\ stack[sp - 2] = Shaped("mat", << 2, 2 >>, << Dbl(1), Dbl(2), Dbl(3), Dbl(4) >>)
  /\ stack[sp] = IntE(2)

(* ------------------------------------------------------------------------ *)
\* The append_cell step that ends a row after the first (arg0 1 or 2).
C21_EndsLaterRow == mode = "run" /\ Opcode = APPEND_CELL /\ arg0 \in {1, 2} /\ last' = "append_cell"
\* The count of the row the step ends, and the width the first row left.
C21_RowCount == AppendElement(stack[Len(stack) - 3], stack[Len(stack) - 1].n,
                              stack[Len(stack) - 2].n, TOP_OV).i_col_idx
C21_Width == cols(stack[Len(stack) - 3])
\* C21: an append_cell that ends a row after the first raises "number of
\* columns must match" whenever the count of that row differs from the width
\* of the first row; otherwise, when it ends the cell, the cell left on the
\* stack has the rows of the literal and the width of the first row.
C21_RowsMatchFirstRow ==
  [][C21_EndsLaterRow =>
       IF C21_RowCount # C21_Width
       THEN mode' = "unwind" /\ stack'[Len(stack') - 1] = Pee("number of columns must match")
       ELSE /\ mode' = "run"
            /\ arg0 = 2 => stack'[Len(stack')].d = << ByteOf(regs.code, 5), C21_Width >>]_vars
\* The three rows of {x; y; z} were all empty, as wide as the first, and the
\* cell assigned to c has two rows.
C21_ThreeEmptyRowsGiveTwo ==
  /\ regs.code = 34
  /\ last = "assign"
  /\ \A s \in 2..4 : stack[s + 1] = CsList(<< >>)
  /\ stack[2].d = << 2, 0 >>
\* A plain element that grew the first row of {x, y; z} left one row for the
\* two rows of the literal, and an element of the second row is stored
\* outside of the cell.
C21_StoreOutsideOfCell ==
  /\ regs.code = 33
  /\ mode = "ub"
  /\ stack[Len(stack) - 3].d = << 1, 3 >>

\* C22: {x, y} with two empty cs-lists for x and y leaves a cell of size
\* [1 0] when its last append_cell (arg0 3) is done.
C22_TwoEmptyListsGiveOneByZero ==
  [][(mode = "run" /\ Opcode = APPEND_CELL /\ arg0 = 3 /\ last' = "append_cell"
      /\ stack[3] = CsList(<< >>) /\ stack[4] = CsList(<< >>))
     => stack'[Len(stack')].d = << 1, 0 >>]_vars
\* The cell {x, y} of two empty cs-lists is assigned to c as a 0x0 cell.
C22_ZeroByZero ==
  /\ regs.code = 32
  /\ last = "assign"
  /\ stack[3] = CsList(<< >>) /\ stack[4] = CsList(<< >>)
  /\ stack[2] = CellV(<< >>)

(* ------------------------------------------------------------------------ *)
\* The routines the machine is in, the root routine first.
OpenRoutines == << root.fn >> \o [i \in 1..Len(calls) |-> calls[i].fn]
\* The callees of the shadow call stack of the profiler.
ShadowCallees ==
  [i \in 1..Len(m_vm_profiler.m_shadow_call_stack) |-> m_vm_profiler.m_shadow_call_stack[i].m_callee]
\* execute_code is left, by a return or by an exception.
LeftExecuteCode == mode \in {"returned", "done", "thrown", "rethrown", "escaped"}
\* C23: with the profiler enabled every enter_fn is matched by one exit_fn:
\* between two instructions the shadow call stack holds the open routines,
\* and it is empty when execute_code is left, by the return of the root
\* routine or by an error that escapes it.
C23_ShadowStackBalanced ==
  m_profiler_enabled =>
    /\ mode = "run" => ShadowCallees = OpenRoutines
    /\ LeftExecuteCode => m_vm_profiler.m_shadow_call_stack = << >>
\* The part of C23 that holds: the shadow call stack follows the calls and
\* the returns, and is empty after the return of the root routine.
C23_ShadowStackBalancedOnReturn ==
  m_profiler_enabled =>
    /\ mode = "run" => ShadowCallees = OpenRoutines
    /\ mode \in {"returned", "done"} => m_vm_profiler.m_shadow_call_stack = << >>
\* An error has escaped the root routine after a call was unwound, and the
\* entry of the root routine is still on the shadow call stack.
C23_RootEntryLeft ==
  /\ m_profiler_enabled
  /\ mode = "rethrown"
  /\ errdat.depth > 2
  /\ m_vm_profiler.m_shadow_call_stack = << [m_callee |-> root.fn, m_caller |-> 0] >>

(* ------------------------------------------------------------------------ *)
\* The turn of unwind that finds a handler in the current frame.
C24_FindsHandler == mode = "unwinding" /\ UnwindEntry(errdat.et) # 0 /\ last' = "unwind_frame"
\* The depth the handler is to begin with: n_locals plus the depth of its
\* region, from the base of the frame.
C24_TargetDepth == N_LOCALS(regs.code) + UnwindEntries[UnwindEntry(errdat.et)].m_stack_depth
\* C24: when unwind finds a handler in the current frame it destroys the
\* operand stack down to exactly n_locals + the depth of the region and
\* pushes exactly one error value; the two counter words of every for loop
\* above that depth are removed as raw words, and no value is skipped as if
\* it were a counter word.
C24_UnwindToHandlerDepth ==
  [][C24_FindsHandler =>
       /\ mode' = "run"
       /\ ~UnwindHitsRaw(stack, C24_TargetDepth)
       /\ ~UnwindSkipsValue(stack, C24_TargetDepth)
       /\ sp >= bsp + C24_TargetDepth
       /\ stack' = Append(Keep(stack, bsp + C24_TargetDepth), ErrMap(errdat.et))]_vars
\* The handler of vtry begins on a frame that RET has cut below n_locals:
\* unwind found nothing to destroy and pushed the error value on two words.
C24_HandlerBelowTargetDepth ==
  /\ last = "unwind_frame"
  /\ mode = "run"
  /\ regs.code = 13
  /\ TOP_OV = ErrMap("EXECUTION_EXC")
  /\ sp = bsp + N_LOCALS(regs.code)
  /\ frames[Len(frames)].caught

(* ------------------------- C25: THROW_IFERROBJ and interrupts --------------- *)

\* THROW_IFERROBJ has just raised the error object of the last error again.
ThrowIfErrObjRaised == last = "throw_iferrorobj" /\ mode = "unwind"

\* C25: THROW_IFERROBJ raises INTERRUPT_EXC exactly when the error object it
\* finds on top of the stack was made from an interrupt; the object of an
\* ordinary error is raised again as an error, also when an interrupt has
\* been unwound earlier in the run.
C25_InterruptOnlyForInterrupt ==
  [][(Running(THROW_IFERROBJ) /\ last' = "throw_iferrorobj" /\ mode' = "unwind")
       => ((stack'[Len(stack')] = ErrTag("INTERRUPT_EXC")) <=> (TOP_OV = ErrMap("INTERRUPT_EXC")))]_vars

\* An execution error was unwound into a cleanup block after an interrupt
\* of the same run had been replaced by an error and caught, and
\* THROW_IFERROBJ has raised it as an interrupt.
C25_ErrorRaisedAsInterrupt ==
  /\ ThrowIfErrObjRaised
  /\ regs.code = 36 /\ ip > 27
  /\ errdat.et = "EXECUTION_EXC"
  /\ TOP_OV = ErrTag("INTERRUPT_EXC")

(* ------------------------- C26: the exception that leaves the VM ------------ *)

\* C26: THROW_IFERROBJ raises the error object again with a tag that leaves
\* the VM as the same host exception as the tag the object was made from,
\* and unwind at the root throws the host exception of the tag it unwinds.
C26_RethrownKindKept ==
  [][/\ (Running(THROW_IFERROBJ) /\ last' = "throw_iferrorobj" /\ mode' = "unwind")
          => Rethrown(stack'[Len(stack')].l[1]) = Rethrown(TOP_OV.l[1])
     /\ (mode = "rethrow" /\ mode' = "thrown") => retval' = << Str(Rethrown(errdat.et)) >>]_vars

\* An exit request raised under the second unwind_protect of uwp has run the
\* cleanup block and has been raised again as an execution error.
C26_ExitRaisedAsError ==
  /\ ThrowIfErrObjRaised
  /\ regs.code = 36 /\ ip > 27
  /\ ~m_unwinding_interrupt
  /\ errdat.et = "EXIT_EXCEPTION"
  /\ TOP_OV = ErrTag("EXECUTION_EXC")

(* ------------------------- C29: the lvalue list of the evaluator ------------ *)

\* C29: when execute_code is left, by the return of the root routine or by
\* an error that escapes at the root, the lvalue list of the evaluator is the
\* list that was installed when execute_code was entered.
C29_LvalueListRestored == LeftExecuteCode => lvalue_list = EntryList

\* The root routine was called with too many inputs; the error has left
\* execute_code and the evaluator holds a list that was never installed.
C29_ArityErrorRestoresOtherList ==
  /\ mode = "thrown"
  /\ errdat.fn = root.fn /\ errdat.depth = Len(frames) /\ errdat.at = 4
  /\ Len(root.args) > Abs(N_ARGS(root.fn))
  /\ lvalue_list # EntryList

(* ------------------------- C30: the two ways of handing over returns -------- *)

\* RET_ANON is about to hand the values of the running frame to a bytecode
\* caller.
RetAnonToCaller == last' = "ret_anon" /\ mode' = "run" /\ Len(frames') < Len(frames)
\* The values an anonymous function has on its operand stack, deepest first.
AnonReturns == SubSeq(stack, bsp + N_LOCALS(regs.code) + 1, sp)

\* C30: whether or not the values have to be copied through a list because
\* the stacks would overlap, RET and RET_ANON leave on the caller's stack what
\* the direct move leaves: the nil padding deepest and above it the values,
\* the first return value on top.
C30_CopyAsDirectMove ==
  [][/\ RetToCaller
          => Handed = RetPushed(RetHas(ReturnSlots, N_RETURNS(regs.code) < 0, ThisCall.nvalback),
                                ThisCall.nvalback, FALSE)
     /\ RetAnonToCaller
          => Handed = RetAnonPushed(AnonReturns, ThisCall.nvalback, FALSE)]_vars

\* @(x) vout (x) had the values 1 and 2 of vout ({1, 2}) on its stack with 1
\* above 2; its RET_ANON has copied ten values through a list and the caller
\* finds 2 on top and 1 below it.
C30_AnonCopyReversed ==
  /\ last = "ret_anon"
  /\ mode = "run"
  /\ regs.code = 7
  /\ root.args = << FHandle(5), CellV(<< Dbl(1), Dbl(2) >>) >>
  /\ root.nargout = 10
  /\ stack[sp] = Dbl(2)
  /\ stack[sp - 1] = Dbl(1)

(* ------------------------- C27: the entries of output_ignore_data ----------- *)

\* The number of dynamic frames at the time the output_ignore_data object of
\* the run is made: vm::call makes it for the root frame when the host ignores
\* an output, else the SET_IGNORE_OUTPUTS of ign or ignh makes it.
FramesWhenMade == IF Len(ignored_fcn_outputs.l) > 0 \/ root.fn # 38 THEN 2 ELSE 3

\* C27: while the output_ignore_data object exists it has one entry for the
\* frame it was made in and one for every bytecode frame pushed since and not
\* yet popped, whichever way the frames were left.
C27_EntriesFollowFrames ==
  (m_output_ignore_data.live /\ mode = "run")
    => Len(m_output_ignore_data.m_v_lvalue_list) = Len(frames) - FramesWhenMade + 1

\* The host ignores an output of top, top has called ign and ign has called
\* vout (1); RET of vout has popped the entry of its frame and raised
\* "varargout must be a cell array object", unwind has popped another entry
\* with the frame, and ign runs its cleanup block with one entry for the two
\* frames of top and ign.
C27_EntryPoppedTwice ==
  /\ mode = "run"
  /\ root.fn = 38 /\ ~root.hostfail /\ root.args = << Dbl(1) >>
  /\ regs.code = 37
  /\ last = "unwind_frame"
  /\ Len(frames) = 3
  /\ m_output_ignore_data.live
  /\ Len(m_output_ignore_data.m_v_lvalue_list) = 1

(* ------------------------- C28: SET_IGNORE_OUTPUTS ... CLEAR_IGNORE_OUTPUTS - *)

\* CLEAR_IGNORE_OUTPUTS runs after the call between it and its
\* SET_IGNORE_OUTPUTS has completed: the cleanup block was entered with nil
\* for the error object.
ClearAfterCall ==
  /\ Running(CLEAR_IGNORE_OUTPUTS)
  /\ ~is_defined(TOP_OV)
  /\ last' = "clear_ignore_outputs"
\* The list SET_IGNORE_OUTPUTS makes in these runs, which have one
\* SET_IGNORE_OUTPUTS each: the first list made after the two of the host.
VmOwnedList == StaleList + 1
\* The slots CLEAR_IGNORE_OUTPUTS lists.
ListedSlots == {USHORT_FROM_UCHARS(Byte(ip + 2 * k), Byte(ip + 2 * k + 1)) : k \in 1..arg0}

\* C28: the CLEAR_IGNORE_OUTPUTS that follows a SET_IGNORE_OUTPUTS and a call
\* that completed leaves the evaluator with the lvalue list it had before
\* SET_IGNORE_OUTPUTS (none, in every frame of these units), has the list
\* SET_IGNORE_OUTPUTS made deleted once, leaves no pending ignore matrix and
\* leaves the listed slots undefined; the list is never deleted twice.
C28_ClearUndoesSet ==
  [][/\ ClearAfterCall
          => /\ mode' = "run"
             /\ lvalue_list' = nullptr
             /\ lvalue_lists'[VmOwnedList] = 1
             /\ ~is_defined(m_output_ignore_data'.m_ov_pending_ignore_matrix)
             /\ \A s \in ListedSlots : ~is_defined(At(stack', bsp + s))
     /\ Len(lvalue_lists') >= VmOwnedList => lvalue_lists'[VmOwnedList] <= 1]_vars

\* ign has run [~, r] = vout ({1, 2}): the slot %~1 had the value 1 and is
\* undefined after CLEAR_IGNORE_OUTPUTS, r is 2, the list of the VM is
\* deleted and the evaluator has no list.
C28_Witness ==
  /\ last = "clear_ignore_outputs"
  /\ mode = "run"
  /\ regs.code = 37
  /\ ~is_defined(TOP_OV)
  /\ At(stack, bsp + 2) = Dbl(2)
  /\ ~is_defined(At(stack, bsp + 5))
  /\ lvalue_lists = << 0, 0, 1 >>
  /\ lvalue_list = nullptr

(* ------------------------- C31: ASSIGNN and cs-lists -------------------- *)
\* The operands of the ASSIGNN at ip, as the compiler laid them out: n_slots
\* values on the stack and n_slots slot numbers in the code.
AssignNValues == [i \in 1..arg0 |-> AssignNOperand(i)]
AssignNNext == ip + 2 + 2 * arg0

\* C31: an ASSIGNN that goes on to the next instruction has read its n_slots
\* slot numbers, so that ip is at the opcode after them, and has taken its
\* n_slots values off the stack; it never reads past its operands, whatever
\* cs-lists are among the values.
C31_AssignNConsumesOperands ==
  [][AssignNStep
       => /\ mode' # "ub"
          /\ mode' = "run" => /\ ip' = AssignNNext
                              /\ Len(stack') = Len(stack) - arg0]_vars

\* [G, b] = rhs with the cs-list (1, 2) on top of the stack: both elements
\* went to the first slot, one slot number was read, the second value is
\* still on the stack and ip is inside the operands of the ASSIGNN.
C31_SecondOperandLeft ==
  /\ last = "assign_n"
  /\ mode = "run"
  /\ regs.code = 26
  /\ ip = 8
  /\ At(stack, bsp + 1) = Dbl(2)
  /\ ~is_defined(At(stack, bsp + 2))
  /\ sp = N_LOCALS(26) + 1

(* --------------------------- C32: FOR_COND ------------------------------ *)
\* Element k (from 0) of what a loop runs over: the k-th value of a range,
\* the k-th column of an array with rows, the scalar itself.
LoopElement(v, k) ==
  IF v.t = "range" THEN Dbl(v.n + k)
  ELSE IF v.d = << >> THEN v
  ELSE IF v.t = "mat" /\ v.d[1] = 1 THEN v.l[k + 1]
  ELSE Shaped(v.t, << v.d[1], 1 >>, [i \in 1..v.d[1] |-> v.l[k * v.d[1] + i]])
\* The count FOR_SETUP pushed for the loop at FOR_COND.
LoopCount == stack[sp - 1]
\* The locals of the running frame as the routine reads them.
LocalsRead(stk, g) == [s \in 0..(N_LOCALS(regs.code) - 1) |-> SlotValue(stk, bsp, s, g)]
\* The raw words above the locals of the running frame.
LoopWords(stk) == Cardinality({p \in (bsp + N_LOCALS(regs.code) + 1)..Len(stk) : stk[p].t = "i"})
\* The running frame is that of a loop unit, between the FOR_COND of its loop
\* and the POP_N_INTS that ends it.
InLoopUnit == mode = "run" /\ regs.code \in {41, 42}
BetweenCondAndAfter ==
  \E e \in {UnwindEntries[i] : i \in 1..Len(UnwindEntries)} :
     e.m_unwind_entry_type = "FOR_LOOP" /\ e.m_ip_start <= ip /\ ip <= e.m_ip_end

\* C32: with the count n and the counter c on the stack, FOR_COND raises the
\* counter by one and, when c + 1 < n, stores element c + 1 of the iterable
\* in the slot (through its wrapper when it holds one), changes no other
\* local and goes on in the body; when c + 1 = n it stores nothing and jumps
\* to after.  So the elements 0 .. n - 1 are written in order, once each,
\* whatever the body stored in the slot.  The two counter words are on the
\* stack of the frame from FOR_COND to POP_N_INTS and nowhere else, also
\* after an error left the loop for the catch block.
C32_ForCondWritesInOrder ==
  /\ [][(ForCondStep /\ InLoopUnit)
          => LET k == LoopCounter.n + 1
             IN  /\ Len(stack') = sp
                 /\ stack'[sp] = IntE(k)
                 /\ stack'[sp - 1] = LoopCount
                 /\ stack'[sp - 2] = LoopIterable
                 /\ k <= LoopCount.n
                 /\ IF k < LoopCount.n
                    THEN /\ ip' = ip + 4
                         /\ LocalsRead(stack', globals') =
                              [LocalsRead(stack, globals) EXCEPT ![arg0] = LoopElement(LoopIterable, k)]
                         /\ is_ref(At(stack, bsp + arg0)) => At(stack', bsp + arg0) = At(stack, bsp + arg0)
                    ELSE /\ ip' = USHORT_FROM_UCHARS(Byte(ip + 2), Byte(ip + 3))
                         /\ LocalsRead(stack', globals') = LocalsRead(stack, globals)]_vars
  /\ [](InLoopUnit => LoopWords(stack) = IF BetweenCondAndAfter THEN 2 ELSE 0)

\* wloop (0:2) has left its loop after three iterations: the last FOR_COND
\* found i holding what the body had stored, the range, and wrote nothing.
C32_Witness ==
  /\ last = "for_cond"
  /\ mode = "run"
  /\ regs.code = 41
  /\ Opcode = POP_N_INTS
  /\ LoopIterable = Range(0, MaxRange)
  /\ LoopCounter = IntE(MaxRange)
  /\ At(stack, bsp + 2) = Range(0, MaxRange)

(* --------------------------------- C33 ---------------------------------- *)
ComplexCondStep == for_complex_cond /\ regs.code = 43
\* The step begins an iteration rather than leaving the loop.
ComplexCondIterates == TOP_OV.n + 1 # At(stack, sp - 2).n
ComplexKeySlot == bsp + USHORT_FROM_UCHARS(Byte(ip + 3), Byte(ip + 4))
ComplexValueSlot == bsp + USHORT_FROM_UCHARS(Byte(ip + 5), Byte(ip + 6))
ComplexField == TOP_OV.n + 2
\* The slot at p receives x the way its own content at entry asks for.
WrittenByOwnKind(p, x) ==
  IF is_ref(At(stack, p))
  THEN At(stack', p) = At(stack, p) /\ deref(At(stack, p), globals') = x
  ELSE At(stack', p) = x

\* C33: a FOR_COMPLEX_COND step that begins an iteration writes the field's
\* name to key_slot and its contents to value_slot, each through the wrapper
\* of its own slot exactly when that slot holds one: a wrapper stays in its
\* slot and its variable receives the value, a plain slot receives the value
\* itself, and a global that neither slot refers to is left alone.
C33_ComplexCondWritesBySlotKind ==
  [][(ComplexCondStep /\ ComplexCondIterates) =>
       /\ mode' = "run"
       /\ WrittenByOwnKind(ComplexKeySlot, keys(At(stack, sp - 3))[ComplexField])
       /\ WrittenByOwnKind(ComplexValueSlot, contents(At(stack, sp - 3), ComplexField))
       /\ \A g \in GlobalNames :
            (\A p \in {ComplexKeySlot, ComplexValueSlot} :
               ~(is_ref(At(stack, p)) /\ At(stack, p).l[1] = g)) => globals'[g] = globals[g]]_vars

\* The key slot began as a wrapper of G and now holds the name itself, while
\* G still has the value it had before the loop.
C33_KeyWrapperOverwritten ==
  /\ last = "for_complex_cond" /\ mode = "run" /\ regs.code = 43
  /\ At(stack, bsp + 2) = Str("a")
  /\ globals["G"] = Dbl(2)
  /\ ~is_ref(At(stack, bsp + 3))

(* --------------------------------- C34 ---------------------------------- *)
\* The offset of the opcode byte of the instruction that is executed.
OpcodeByteAt == IF Prefixed THEN ip + 1 ELSE ip
\* The instruction has the WIDE prefix exactly when its slot number is 256
\* or larger.
PrefixAsCompiled == Prefixed <=> WideArg0 >= FirstWideSlot

\* C34: a step of a self-rewriting handler, on an instruction that has the
\* WIDE prefix exactly when its slot number is 256 or larger, changes no code
\* byte but the opcode byte of the instruction it executes: the operand
\* bytes, the WIDE prefix and the other instructions stay as they were.
C34_RewriteHitsOwnOpcode ==
  [][PrefixAsCompiled =>
       /\ \A f \in Units : \A o \in 0..(Len(code[f]) - 1) :
            ByteOf(f, o)' # ByteOf(f, o) => f = regs.code /\ o = OpcodeByteAt
       /\ \A f \in Units : Len(code'[f]) = Len(code[f])]_vars

\* subassign_id has specialized the instruction behind a WIDE prefix: prefix
\* and slot number are as compiled.
C34_Witness ==
  /\ last = "subassign_id" /\ mode = "run" /\ regs.code = 44
  /\ ByteOf(44, 4) = WIDE
  /\ ByteOf(44, 5) = SUBASSIGN_ID_MAT_1D
  /\ USHORT_FROM_UCHARS(ByteOf(44, 6), ByteOf(44, 7)) = FirstWideSlot
  /\ ByteOf(44, 8) = 1

(* --------------------------------- C35 ---------------------------------- *)
GenericHandlers == {"subassign_id", "index_id1"}
\* The handler the opcode byte dispatches to.
HandlerEntered ==
  LET op == IF Prefixed THEN arg0 ELSE Opcode
  IN  CASE op = SUBASSIGN_ID -> "subassign_id"
        [] op = SUBASSIGN_ID_MAT_1D -> "subassign_id_mat_1d"
        [] op = SUBASSIGN_ID_MAT_2D -> "subassign_id_mat_2d"
        [] op = INDEX_ID_NARGOUT1 -> "index_id1"
        [] op = INDEX_ID1_MAT_1D -> "index_id1_mat_1d"
        [] OTHER -> "index_id1_mat_2d"
\* The handlers control passes through in the execution that begins.
InstructionRoute ==
  IF HandlerEntered \in {"subassign_id", "subassign_id_mat_1d", "subassign_id_mat_2d"}
  THEN SubassignRoute(HandlerEntered, code[regs.code], MaxPasses)
  ELSE IndexRoute(HandlerEntered, code[regs.code], MaxPasses)
\* How often control passes to a generic (or to a specialized) handler.
Passes(path, togeneric) ==
  Cardinality({i \in 1..(Len(path) - 1) : (path[i + 1] \in GenericHandlers) = togeneric})
MatrixStep ==
  \/ subassign_id \/ subassign_id_mat_1d \/ subassign_id_mat_2d
  \/ index_id1 \/ index_id1_mat_1d \/ index_id1_mat_2d

\* C35: while one indexed assignment or index expression is executed,
\* control passes from the generic handler to the specialized one at most
\* once and from the specialized handler to the generic one at most once,
\* no handler but the generic one is entered twice, and the execution ends.
C35_OncePerDirection ==
  [][MatrixStep =>
       /\ ~InstructionRoute.cut
       /\ Passes(InstructionRoute.path, TRUE) <= 1
       /\ Passes(InstructionRoute.path, FALSE) <= 1
       /\ \A i, j \in 1..Len(InstructionRoute.path) :
            (i # j /\ InstructionRoute.path[i] = InstructionRoute.path[j])
              => InstructionRoute.path[i] \in GenericHandlers
       /\ mode' # "hang"]_vars

\* subassign_id has specialized the instruction, the specialized handler has
\* handed the subscript past the end back, and the host has grown the matrix.
C35_Witness ==
  /\ last = "subassign_id" /\ mode = "run" /\ regs.code = 28
  /\ ByteOf(28, 4) = SUBASSIGN_ID_MAT_1D
  /\ At(stack, bsp + 1).t = "mat"
  /\ Len(At(stack, bsp + 1).l) = 5

(* --------------------------------- C36 ---------------------------------- *)
\* The step ends in the store of subassign_id_mat_1d or subassign_id_mat_2d.
InPlaceStore ==
  /\ subassign_id \/ subassign_id_mat_1d \/ subassign_id_mat_2d
  /\ ~InstructionRoute.cut
  /\ InstructionRoute.path[Len(InstructionRoute.path)] \in {"subassign_id_mat_1d", "subassign_id_mat_2d"}
StoreTarget == bsp + SlotWord(WideArg0)
\* The element A(i) or A(i, j) names, in column-major order.
StoreAddressed ==
  IF Byte(HandlerIp) = 1 THEN stack[sp - 1].n
  ELSE (stack[sp - 1].n - 1) * At(stack, StoreTarget).d[1] + stack[sp - 2].n
\* The words under the operands of the instruction.
WordsUnder == 0..(sp - 2 - Byte(HandlerIp))

\* C36: the in-place store of subassign_id_mat_1d / subassign_id_mat_2d
\* changes the addressed element of the matrix in the target slot and
\* nothing else of it, and no other slot, no stack entry and no global
\* variable changes, whether it held the data of the matrix or not.
C36_StoreTouchesOnlyTarget ==
  [][InPlaceStore =>
       /\ mode' = "run"
       /\ At(stack', StoreTarget).t = "mat"
       /\ At(stack', StoreTarget).d = At(stack, StoreTarget).d
       /\ At(stack', StoreTarget).l = [At(stack, StoreTarget).l EXCEPT ![StoreAddressed] = TOP_OV]
       /\ \A p \in WordsUnder \ {StoreTarget} : At(stack', p) = At(stack, p)
       /\ Len(stack') = Len(stack) - 1 - Byte(HandlerIp)
       /\ globals' = globals]_vars

\* A(2) = 9 has run while B, the iterated value of the loop and G held the
\* data of A: they still hold 1 2 3 in the old rep, A holds 1 9 3 in its own.
C36_Witness ==
  /\ last = "subassign_id_mat_1d" /\ mode = "run" /\ regs.code = 50
  /\ Len(stack) = 6
  /\ At(stack, 1).l = << Dbl(1), Dbl(9), Dbl(3) >>
  /\ At(stack, 1).n \notin {0, 1}
  /\ At(stack, 2) = InRep(Mat(<< Dbl(1), Dbl(2), Dbl(3) >>), 1)
  /\ At(stack, 3) = At(stack, 2)
  /\ globals["G"] = At(stack, 2)

(* ------------------------------- C37 -------------------------------------- *)
\* The cell, the column counter, the row counter and the operand of the
\* APPEND_CELL about to run.
AppendedCell == stack[Len(stack) - 3]
AppendColumn == stack[Len(stack) - 2].n
AppendRow == stack[Len(stack) - 1].n
\* The operand does not fit into the first row as the cell was sized.
GrowsFirstRow ==
  /\ mode = "run" /\ sp <= StackSize /\ Opcode = APPEND_CELL
  /\ AppendRow = 0
  /\ IF is_cs_list(TOP_OV) THEN AppendColumn + Len(TOP_OV.l) > cols(AppendedCell)
     ELSE is_defined(TOP_OV) /\ AppendColumn >= cols(AppendedCell)
\* The cell as the APPEND_CELL leaves it: the counters are gone after the last
\* element of the literal.
CellAfterAppend == IF arg0 \in {2, 3} THEN stack'[Len(stack')] ELSE stack'[Len(stack') - 2]
\* C37: an APPEND_CELL that grows the first row leaves the row count the cell
\* was sized with and every element stored before where it was, for a cs-list
\* and for a single value; a cs-list of n values appended at the column k
\* gives the width k + n (2 values after two elements of {x, y, z}: width 4).
C37_GrowthKeepsRowsAndElements ==
  [][GrowsFirstRow /\ last' = "append_cell" /\ mode' = "run" =>
       /\ rows(CellAfterAppend) = rows(AppendedCell)
       /\ \A i \in 0..(rows(AppendedCell) - 1), j \in 0..(AppendColumn - 1) :
             cell_elem(CellAfterAppend, i, j) = cell_elem(AppendedCell, i, j)
       /\ is_cs_list(TOP_OV) => cols(CellAfterAppend) = AppendColumn + Len(TOP_OV.l)]_vars
\* {c{:}, y; z} with two values in c: the literal has two rows, and the cell
\* has one row of three elements after y was appended.
C37_SingleValueGrowthDropsRows ==
  /\ mode = "run" /\ last = "append_cell" /\ regs.code = 33
  /\ ByteOf(regs.code, 5) = 2
  /\ Len(stack) = 8
  /\ stack[6].t = "cell" /\ rows(stack[6]) = 1 /\ cols(stack[6]) = 3
  /\ stack[7].n = 0 /\ stack[8].n = 1

(* ------------------------------- C38 -------------------------------------- *)
\* The word k of m_stack0 is one of [m_stack, m_stack + stack_size).
Usable(k) == m_stack <= k /\ k < m_stack + StackSize
\* C38: every word that holds the magic word lies outside of the usable
\* region [m_stack, m_stack + stack_size), the words directly below m_stack
\* and directly above m_stack + stack_size are the pads, and the stack check
\* does not fail when only words of the usable region were written.
C38_PadsOutsideUsableRegion ==
  /\ \A k \in DOMAIN m_stack0 : m_stack0[k] = "magic" => ~Usable(k)
  /\ \A i \in 0..(StackPad - 1) :
        /\ vm_construct[m_stack - 1 - i] = "magic"
        /\ vm_construct[m_stack + StackSize + i] = "magic"
  /\ last = "check_stack" => mode # "abort"
\* The stack was filled up to its last word and emptied, no word outside of
\* the usable region was written, and the pad test fails: the upper pad is
\* the last stack_pad words of the usable region.
C38_CheckFailsAfterWritesInside ==
  /\ last = "check_stack" /\ mode = "abort"
  /\ sp = 0
  /\ \A k \in DOMAIN m_stack0 : m_stack0[k] = "word" => Usable(k)
  /\ \A i \in 0..(StackPad - 1) : m_stack0[m_stack + StackSize + i] = "unset"

(* ------------------------------- C39 -------------------------------------- *)
\* The switch value and the case label of the JMP_IFNCASEMATCH about to run.
SwitchValue == At(stack, sp - 2)
CaseLabel == TOP_OV
\* The switch value equals at least one element of the cell.
EqualsAnElement(v, c) == \E k \in 1..Len(c.l) : is_equal(v, c.l[k])
\* C39: JMP_IFNCASEMATCH with a cell as the case label goes on with the case
\* body (the next instruction) if and only if the switch value equals at
\* least one element of the cell, whatever the shape of the cell, and jumps
\* to its target otherwise; both ways exactly its two operands are popped.
C39_CellLabelMatchesAnyElement ==
  [][Running(JMP_IFNCASEMATCH) /\ iscell(CaseLabel) /\ last' = "switch_cmp" =>
       /\ stack' = SubSeq(stack, 1, Len(stack) - 2)
       /\ ip' = IF EqualsAnElement(SwitchValue, CaseLabel) THEN ip + 3
                ELSE USHORT_FROM_UCHARS(arg0, Byte(ip + 2))]_vars
\* switch 1, case {1; 2}: the label holds the switch value in its first row,
\* and the case body is jumped over.
C39_MatchInFirstRowIsLost ==
  /\ regs.code = 53 /\ last = "switch_cmp" /\ mode = "run"
  /\ stack = << IntE(0), Dbl(1), Shaped("cell", << 2, 1 >>, << Dbl(1), Dbl(2) >>) >>
  /\ ip = 14

(* ------------------------------- C40 -------------------------------------- *)
\* C40: the frame cache never holds more than eight frames, and every frame
\* it holds was uniquely owned, the frame of an ordinary user function and no
\* closure context when it was placed, whether RET or RET_ANON released it.
C40_CacheHoldsOrdinaryFrames ==
  /\ Len(m_frame_ptr_cache) <= FrameCacheSize
  /\ \A i \in 1..Len(m_frame_ptr_cache) :
        /\ m_frame_ptr_cache[i].unique
        /\ m_frame_ptr_cache[i].is_user_fcn_frame
        /\ ~m_frame_ptr_cache[i].is_closure_context
\* An anonymous function has returned, and its frame, a closure context, is
\* the last frame of the cache.
C40_RetAnonCachesClosureContext ==
  /\ last = "ret_anon" /\ mode = "run"
  /\ Len(m_frame_ptr_cache) > 0
  /\ m_frame_ptr_cache[Len(m_frame_ptr_cache)].is_closure_context
  /\ m_frame_ptr_cache[Len(m_frame_ptr_cache)].unique
====
